---------------------------- MODULE Spec2Model ----------------------------
(* A model of the structural parser, the metadata extractor and the      *)
(* document model of K_plus_parcer.                                       *)
(*                                                                        *)
(* A text is a sequence of symbols.  A symbol is one character, except   *)
(* that a fixed word of the source's patterns is one symbol:             *)
(*   "Glava" = 'Глава', "Razdel" = 'Раздел', "Statya" = 'Статья',        *)
(* and likewise the words of the metadata patterns, written in Latin     *)
(* letters in the letter case they have in the text.                     *)
(* Regular expressions are matched on the symbol sequence the way        *)
(* Python's re module matches them on characters (leftmost match,        *)
(* greedy and lazy quantifiers, backtracking, MULTILINE anchors).        *)
EXTENDS Integers, Sequences, FiniteSets, TLC

VARIABLES
    text,       \* ArticleParser.parse: the argument
    pc,         \* ArticleParser.parse: "idle", "called" or "returned"
    chapters,   \* ArticleParser.parse: first component of the returned pair
    articles,   \* ArticleParser.parse: second component of the returned pair
    markdown,   \* None, or Some(the to_markdown() of each chapter and of each
                \* flat article returned)
    numeral,    \* the integer a Roman numeral under test was written from
    romanArg,   \* ArticleParser._roman_to_int: the argument
    romanResult, \* ArticleParser._roman_to_int: None, or Some(returned value)
    metaText,   \* MetadataExtractor.extract: the argument text (the prefix)
    fallbackTitle, \* MetadataExtractor.extract: the argument fallback_title
    clock,      \* the time datetime.now() returns
    metaArgs,   \* the dict given to extract_from_dict, or the keyword arguments
                \* given to DocumentMetadata: None stands for a key left out
    metaPc,     \* "idle", "called", "from_dict", "constructing", "returned",
                \* "converted", "constructed" or "raised"
    metadata,   \* MetadataExtractor.extract: None, or Some(returned DocumentMetadata)
    rawText,    \* NPAParser.parse: the text the PDF extractor gives for pdf_path
    docPc,      \* "idle", "called", "parsing", "constructing", "returned",
                \* "built", "constructed" or "raised"
    document,   \* None, or Some(NPADocument) once one has been constructed
    statistics, \* None, or Some(dict get_statistics returned for document)
    lookup,     \* None, or Some(argument and result of get_article_by_number)
    parsers,    \* the ArticleParser instances: their attributes
    docOf,      \* the argument text of each invocation of parse
    instanceOf, \* the ArticleParser instance each invocation runs on
    pcOf,       \* where each invocation of parse stands
    frames,     \* the local variables of the invocations
    heap,       \* the objects allocated so far: an object's identity is its index
    result,     \* None, or Some(pair of lists of object ids) an invocation returned
    log,        \* history: the instance, text and tree of the invocations before
    limiter,    \* the TokenBucketRateLimiter instance: its attributes
    lockOwner,  \* the caller holding _lock and the one holding _sync_lock, 0 for none
    wallClock,  \* the time time.time() returns, in seconds
    callers,    \* the callers of acquire() and acquire_sync(): position and locals
    retry       \* the invocation of _request_with_retry: position, locals, history

parserVars == <<text, pc, chapters, articles, markdown>>
romanVars == <<numeral, romanArg, romanResult>>
metaVars == <<metaText, fallbackTitle, clock, metaArgs, metaPc, metadata>>

docVars == <<rawText, docPc, document, statistics, lookup>>
concVars == <<parsers, docOf, instanceOf, pcOf, frames, heap, result, log>>

scraperVars == <<limiter, lockOwner, wallClock, callers, retry>>

vars == <<parserVars, romanVars, metaVars, docVars, concVars, scraperVars>>

-----------------------------------------------------------------------------
(* Bounds of the model *)

\* the longest input text, in lines
MaxLines == 4

\* the largest integer written as a Roman numeral
MaxNumeral == 3999

\* the longest metadata prefix, in segments (lines)
MaxSegments == 3

\* the latest time of a call of extract
MaxClock == 2

\* the longest body of a PDF text given to NPAParser.parse, in lines
MaxDocLines == 2

\* the longest text of two concurrent invocations of parse, in lines
MaxConcLines == 3

\* the longest text of consecutive invocations of parse, in lines
MaxSeqLines == 2

\* the number of consecutive invocations of parse
MaxCalls == 3

\* the longest string of Roman symbols, well-formed or not
MaxRomanLen == 4

\* the number of lines of the head of a document
MaxHeadLines == 4

\* the number of lines before the first header of a document
MaxPreambleLines == 6

\* the callers of acquire() and acquire_sync() on the one limiter
MaxCallers == 2

\* the last second the clock of the limiter reaches
MaxTime == 3

\* the largest burst_size of a limiter
MaxBurst == 2

\* the largest max_retries of a scraper
MaxRetries == 3

-----------------------------------------------------------------------------
(* Symbols and character classes *)

SP == " "
NL == "\n"

\* Optional values: None, or Some(x)
None == <<>>
Some(x) == <<x>>

\* a local variable: Body with its parameter bound to the value of e
Bind(e, Body(_)) == Body(e)

\* \s of the patterns and of str.strip()
IsSpace(c) == c \in {SP, NL}

\* \d of the patterns
IsDigit(c) == c \in {"0", "1", "2", "3", "4", "5", "6", "7", "8", "9"}

\* the class [IVXLCDM] of CHAPTER_PATTERN
IsRoman(c) == c \in {"I", "V", "X", "L", "C", "D", "M"}

\* the words (Глава|Раздел) of CHAPTER_PATTERN
IsChapterWord(c) == c \in {"Glava", "Razdel"}

\* int() of one digit
DigitValue(c) ==
    CASE c = "0" -> 0 [] c = "1" -> 1 [] c = "2" -> 2 [] c = "3" -> 3
      [] c = "4" -> 4 [] c = "5" -> 5 [] c = "6" -> 6 [] c = "7" -> 7
      [] c = "8" -> 8 [] c = "9" -> 9

RECURSIVE IntOf(_)
\* int() of a string of digits
IntOf(ds) ==
    IF ds = <<>> THEN 0
    ELSE 10 * IntOf(SubSeq(ds, 1, Len(ds) - 1)) + DigitValue(ds[Len(ds)])

-----------------------------------------------------------------------------
(* String operations of Python used by the parser (positions are 1-based; *)
(* a span [a, b) is the symbols a .. b-1)                                  *)

Slice(s, a, b) == SubSeq(s, a, b - 1)

RECURSIVE SkipSpaces(_, _)
\* the position after the longest run of \s starting at i
SkipSpaces(s, i) ==
    IF i <= Len(s) /\ IsSpace(s[i]) THEN SkipSpaces(s, i + 1) ELSE i

RECURSIVE SkipDigits(_, _)
\* the position after the longest run of \d starting at i
SkipDigits(s, i) ==
    IF i <= Len(s) /\ IsDigit(s[i]) THEN SkipDigits(s, i + 1) ELSE i

RECURSIVE SkipRoman(_, _)
\* the position after the longest run of [IVXLCDM] starting at i
SkipRoman(s, i) ==
    IF i <= Len(s) /\ IsRoman(s[i]) THEN SkipRoman(s, i + 1) ELSE i

RECURSIVE EndOfLine(_, _)
\* the first position from i on where $ matches under re.MULTILINE:
\* before a newline or at the end of the string
EndOfLine(s, i) ==
    IF i <= Len(s) /\ s[i] # NL THEN EndOfLine(s, i + 1) ELSE i

\* where ^ matches under re.MULTILINE
LineStart(s, i) == i = 1 \/ (i > 1 /\ i <= Len(s) + 1 /\ s[i - 1] = NL)

RECURSIVE LStrip(_)
LStrip(s) == IF s # <<>> /\ IsSpace(Head(s)) THEN LStrip(Tail(s)) ELSE s

RECURSIVE RStrip(_)
RStrip(s) ==
    IF s # <<>> /\ IsSpace(s[Len(s)]) THEN RStrip(SubSeq(s, 1, Len(s) - 1)) ELSE s

\* str.strip()
Strip(s) == RStrip(LStrip(s))

RECURSIVE Split(_)
\* str.split('\n'): always at least one element
Split(s) ==
    Bind(EndOfLine(s, 1), LAMBDA e :
        IF e > Len(s) THEN <<s>>
        ELSE <<Slice(s, 1, e)>> \o Split(SubSeq(s, e + 1, Len(s))))

RECURSIVE Join(_, _)
\* sep.join(items)
Join(sep, items) ==
    IF items = <<>> THEN <<>>
    ELSE IF Len(items) = 1 THEN items[1]
    ELSE items[1] \o sep \o Join(sep, Tail(items))

-----------------------------------------------------------------------------
(* The patterns of ArticleParser *)

NoMatch == [ok |-> FALSE]

RECURSIVE TitleStart(_, _, _)
\* The tail \s*(.+?)$ of ARTICLE_PATTERN and CHAPTER_PATTERN tried after
\* position p: \s* is greedy (q is where the longest run of \s ends) and
\* gives symbols back one at a time until (.+?) can start at s, on a symbol
\* that is not a newline.  The result is that s, or 0 when there is none.
TitleStart(s, p, q) ==
    IF q < p THEN 0
    ELSE IF q <= Len(s) /\ s[q] # NL THEN q
    ELSE TitleStart(s, p, q - 1)

\* \s*(.+?)$ from position p: the lazy (.+?) runs from its start to the
\* first place where $ matches
TitleMatch(s, p) ==
    Bind(TitleStart(s, p, SkipSpaces(s, p)), LAMBDA t :
        IF t = 0 THEN NoMatch
        ELSE Bind(EndOfLine(s, t), LAMBDA e :
                 [ok |-> TRUE, title |-> Slice(s, t, e), end |-> e]))

\* ARTICLE_PATTERN = ^Статья\s+(\d+(?:\.\d+)?)\.\s*(.+?)$ tried at position i:
\* b is where \s+ ends, c where the first \d+ ends, d where the optional
\* group (?:\.\d+)? ends; dotted is the match with the group taken, plain
\* the match with the group skipped, which is tried second
ArticleMatchAt(s, i) ==
    IF ~(LineStart(s, i) /\ i <= Len(s) /\ s[i] = "Statya") THEN NoMatch
    ELSE
    Bind(SkipSpaces(s, i + 1), LAMBDA b :
    Bind(SkipDigits(s, b), LAMBDA c :
    Bind(IF c <= Len(s) /\ s[c] = "." THEN SkipDigits(s, c + 1) ELSE c, LAMBDA d :
    Bind(IF d > c + 1 /\ d <= Len(s) /\ s[d] = "."
         THEN TitleMatch(s, d + 1) ELSE NoMatch, LAMBDA dotted :
    Bind(IF c <= Len(s) /\ s[c] = "."
         THEN TitleMatch(s, c + 1) ELSE NoMatch, LAMBDA plain :
        IF b = i + 1 \/ c = b THEN NoMatch
        ELSE IF dotted.ok
             THEN [ok |-> TRUE, start |-> i, end |-> dotted.end,
                   group1 |-> Slice(s, b, d), group2 |-> dotted.title]
        ELSE IF plain.ok
             THEN [ok |-> TRUE, start |-> i, end |-> plain.end,
                   group1 |-> Slice(s, b, c), group2 |-> plain.title]
        ELSE NoMatch)))))

\* CHAPTER_PATTERN = ^(Глава|Раздел)\s+([IVXLCDM]+|\d+)\.\s*(.+?)$ at position
\* i: b is where \s+ ends, c where the numeral ends ([IVXLCDM]+ is tried
\* first, \d+ when no such symbol stands at b)
ChapterMatchAt(s, i) ==
    IF ~(LineStart(s, i) /\ i <= Len(s) /\ IsChapterWord(s[i])) THEN NoMatch
    ELSE
    Bind(SkipSpaces(s, i + 1), LAMBDA b :
    Bind(IF SkipRoman(s, b) > b THEN SkipRoman(s, b) ELSE SkipDigits(s, b), LAMBDA c :
    Bind(IF c <= Len(s) /\ s[c] = "."
         THEN TitleMatch(s, c + 1) ELSE NoMatch, LAMBDA tail :
        IF b = i + 1 \/ c = b \/ ~tail.ok THEN NoMatch
        ELSE [ok |-> TRUE, start |-> i, end |-> tail.end, group1 |-> s[i],
              group2 |-> Slice(s, b, c), group3 |-> tail.title])))

RECURSIVE ArticleFindIter(_, _)
\* list(self.article_regex.finditer(text)), scanning from position i
ArticleFindIter(s, i) ==
    IF i > Len(s) THEN <<>>
    ELSE Bind(ArticleMatchAt(s, i), LAMBDA m :
             IF m.ok THEN <<m>> \o ArticleFindIter(s, m.end)
             ELSE ArticleFindIter(s, i + 1))

RECURSIVE ChapterFindIter(_, _)
\* list(self.chapter_regex.finditer(text)), scanning from position i
ChapterFindIter(s, i) ==
    IF i > Len(s) THEN <<>>
    ELSE Bind(ChapterMatchAt(s, i), LAMBDA m :
             IF m.ok THEN <<m>> \o ChapterFindIter(s, m.end)
             ELSE ChapterFindIter(s, i + 1))

\* bool(self.chapter_regex.search(text))
ChapterSearch(s) == \E i \in 1..Len(s) : ChapterMatchAt(s, i).ok

\* self.part_regex.match(line), PART_PATTERN = ^(\d+)\.\s+(.+?)$, on a
\* stripped line (no newline in it, so $ is the end of the line): c is
\* where \d+ ends, e where \s+ ends
PartMatch(line) ==
    Bind(SkipDigits(line, 1), LAMBDA c :
    Bind(IF c <= Len(line) /\ line[c] = "." THEN SkipSpaces(line, c + 1) ELSE c,
         LAMBDA e :
        IF c = 1 \/ e <= c + 1 \/ e > Len(line) THEN NoMatch
        ELSE [ok |-> TRUE, group1 |-> Slice(line, 1, c),
              group2 |-> Slice(line, e, Len(line) + 1)]))

\* re.match(self.SUBPART_PATTERN, line), SUBPART_PATTERN = ^\d+\)\s+.+
SubpartMatch(line) ==
    Bind(SkipDigits(line, 1), LAMBDA c :
    Bind(IF c <= Len(line) /\ line[c] = ")" THEN SkipSpaces(line, c + 1) ELSE c,
         LAMBDA e :
        c > 1 /\ e > c + 1 /\ e <= Len(line)))

-----------------------------------------------------------------------------
(* ArticleParser *)

RomanValues(c) ==
    CASE c = "I" -> 1 [] c = "V" -> 5 [] c = "X" -> 10 [] c = "L" -> 50
      [] c = "C" -> 100 [] c = "D" -> 500 [] c = "M" -> 1000
      [] OTHER -> 0

RECURSIVE RomanAddLoop(_, _, _, _)
\* _roman_to_int without the subtraction: every symbol is added
RomanAddLoop(roman, i, total, prev_value) ==
    IF i = 0 THEN total
    ELSE RomanAddLoop(roman, i - 1, total + RomanValues(roman[i]), prev_value)

RECURSIVE RomanMaxLoop(_, _, _, _)
\* _roman_to_int that keeps in prev_value the largest value seen so far
\* instead of the value seen last
RomanMaxLoop(roman, i, total, prev_value) ==
    IF i = 0 THEN total
    ELSE Bind(RomanValues(roman[i]), LAMBDA value :
             RomanMaxLoop(roman, i - 1,
                          IF value < prev_value THEN total - value ELSE total + value,
                          IF value > prev_value THEN value ELSE prev_value))

RECURSIVE RomanLoop(_, _, _, _)
\* the loop of _roman_to_int over reversed(roman): i runs from the last
\* symbol to the first
RomanLoop(roman, i, total, prev_value) ==
    IF i = 0 THEN total
    ELSE Bind(RomanValues(roman[i]), LAMBDA value :
             RomanLoop(roman, i - 1,
                       IF value < prev_value THEN total - value ELSE total + value,
                       value))

\* ArticleParser._roman_to_int
RomanToInt(roman) == RomanLoop(roman, Len(roman), 0, 0)

\* str.isupper() of a chapter numeral: it has a cased symbol and no
\* lower-case one (digits are not cased, the class [IVXLCDM] is upper case)
IsUpper(s) == \E i \in 1..Len(s) : IsRoman(s[i])

\* ArticlePart(number=..., text=..., subparts=...)
ArticlePart(number, ptext, subparts) ==
    [number |-> number, text |-> ptext, subparts |-> subparts]

\* the locals of _parse_article_parts before its loop
PartsInit ==
    [parts |-> <<>>, current_part_number |-> None,
     current_part_text |-> <<>>, subparts |-> <<>>]

\* the part that is open, as both flushes of _parse_article_parts build it
FlushPart(st) ==
    ArticlePart(st.current_part_number[1],
                Join(<<SP>>, st.current_part_text), st.subparts)

\* one iteration of the loop with 'subparts = []' left out of the opening
\* of a part: the list of the part before is carried into the new part
PartsStrippedLineCarried(st, line) ==
    IF line = <<>> THEN st
    ELSE Bind(PartMatch(line), LAMBDA part_match :
        IF part_match.ok
        THEN [parts |-> IF st.current_part_number # None
                        THEN Append(st.parts, FlushPart(st)) ELSE st.parts,
              current_part_number |-> Some(IntOf(part_match.group1)),
              current_part_text |-> <<part_match.group2>>,
              subparts |-> st.subparts]
        ELSE IF st.current_part_number # None
        THEN IF SubpartMatch(line)
             THEN [st EXCEPT !.subparts = Append(@, line)]
             ELSE [st EXCEPT !.current_part_text = Append(@, line)]
        ELSE st)

\* one iteration of the loop in which a line met while no part is open
\* opens part 1 instead of being passed over
PartsStrippedLineLeading(st, line) ==
    IF line = <<>> THEN st
    ELSE Bind(PartMatch(line), LAMBDA part_match :
        IF part_match.ok
        THEN [parts |-> IF st.current_part_number # None
                        THEN Append(st.parts, FlushPart(st)) ELSE st.parts,
              current_part_number |-> Some(IntOf(part_match.group1)),
              current_part_text |-> <<part_match.group2>>,
              subparts |-> <<>>]
        ELSE IF st.current_part_number # None
        THEN IF SubpartMatch(line)
             THEN [st EXCEPT !.subparts = Append(@, line)]
             ELSE [st EXCEPT !.current_part_text = Append(@, line)]
        ELSE [st EXCEPT !.current_part_number = Some(1),
                        !.current_part_text = <<line>>])

\* one iteration of the loop of _parse_article_parts, on the stripped line
PartsStrippedLine(st, line) ==
    IF line = <<>> THEN st
    ELSE Bind(PartMatch(line), LAMBDA part_match :
        IF part_match.ok
        THEN [parts |-> IF st.current_part_number # None
                        THEN Append(st.parts, FlushPart(st)) ELSE st.parts,
              current_part_number |-> Some(IntOf(part_match.group1)),
              current_part_text |-> <<part_match.group2>>,
              subparts |-> <<>>]
        ELSE IF st.current_part_number # None
        THEN IF SubpartMatch(line)
             THEN [st EXCEPT !.subparts = Append(@, line)]
             ELSE [st EXCEPT !.current_part_text = Append(@, line)]
        ELSE st)

\* one iteration of the loop of _parse_article_parts
PartsLine(st, rawline) == PartsStrippedLine(st, Strip(rawline))

RECURSIVE PartsLoop(_, _, _)
PartsLoop(lines, i, st) ==
    IF i > Len(lines) THEN st
    ELSE PartsLoop(lines, i + 1, PartsLine(st, lines[i]))

\* _parse_article_parts without the flush after its loop: the part open at
\* the end of the text is left out
PartsFlushLastDropped(st) == st.parts

\* the last flush of _parse_article_parts
PartsFlushLast(st) ==
    IF st.current_part_number # None
    THEN Append(st.parts, FlushPart(st)) ELSE st.parts

\* _parse_article_parts without its last block: no part is made up
PartsNoDefault(parts, s) == parts

\* the end of _parse_article_parts with the single part made of the lines
\* the loop has seen, stripped and joined, instead of the text as it stands
PartsDefaultJoined(parts, s) ==
    IF parts = <<>>
    THEN <<ArticlePart(1, Join(<<SP>>, SelectSeq([i \in 1..Len(Split(s)) |->
                                                    Strip(Split(s)[i])],
                                                LAMBDA line : line # <<>>)),
                       <<>>)>>
    ELSE parts

\* the end of _parse_article_parts: the single part made of the whole text
\* when there is none
PartsDefault(parts, s) ==
    IF parts = <<>> THEN <<ArticlePart(1, s, <<>>)>> ELSE parts

\* ArticleParser._parse_article_parts
ParseArticleParts(s) ==
    PartsDefault(PartsFlushLast(PartsLoop(Split(s), 1, PartsInit)), s)

\* Article(number=..., title=..., parts=..., full_text=..., chapter_number=...,
\* chapter_title=...)
Article(number, title, parts, full_text, chapter_number, chapter_title) ==
    [number |-> number, title |-> title, parts |-> parts,
     full_text |-> full_text, chapter_number |-> chapter_number,
     chapter_title |-> chapter_title]

\* Chapter(number=..., title=..., articles=...)
Chapter(number, title, arts) ==
    [number |-> number, title |-> title, articles |-> arts]

\* the body of the loop of _parse_articles_from_text: the article of match
\* i, whose text ends at end_pos
ArticleOfMatch(s, match, end_pos, chapter_number, chapter_title) ==
    Bind(Strip(Slice(s, match.end, end_pos)), LAMBDA article_text :
        Article(match.group1, Strip(match.group2),
                ParseArticleParts(article_text), article_text,
                chapter_number, chapter_title))

\* the loop of _parse_articles_from_text over article_matches
ArticlesOfMatches(s, article_matches, chapter_number, chapter_title) ==
    [i \in 1..Len(article_matches) |->
        ArticleOfMatch(s, article_matches[i],
                       IF i + 1 <= Len(article_matches)
                       THEN article_matches[i + 1].start ELSE Len(s) + 1,
                       chapter_number, chapter_title)]

\* ArticleParser._parse_articles_from_text
ParseArticlesFromText(s, chapter_number, chapter_title) ==
    ArticlesOfMatches(s, ArticleFindIter(s, 1), chapter_number, chapter_title)

\* _parse_articles_only that makes one untitled article of a text in which
\* no article header is found
ParseArticlesOnlyWhole(s) ==
    IF ArticleFindIter(s, 1) = <<>> /\ Strip(s) # <<>>
    THEN <<Article(<<"1">>, <<>>, ParseArticleParts(Strip(s)), Strip(s), None, None)>>
    ELSE ParseArticlesFromText(s, None, None)

\* ArticleParser._parse_articles_only
ParseArticlesOnly(s) == ParseArticlesFromText(s, None, None)

\* chapter_number of _parse_with_chapters
ChapterNumber(chapter_num_str) ==
    IF IsUpper(chapter_num_str)
    THEN RomanToInt(chapter_num_str) ELSE IntOf(chapter_num_str)

\* the body of the loop of _parse_with_chapters: the chapter of match i,
\* whose text ends at end_pos
ChapterOfMatch(s, match, end_pos) ==
    Bind(ChapterNumber(match.group2), LAMBDA chapter_number :
    Bind(Strip(match.group3), LAMBDA chapter_title :
        Chapter(chapter_number, chapter_title,
                ParseArticlesFromText(Slice(s, match.end, end_pos),
                                      Some(chapter_number), Some(chapter_title)))))

\* the loop of _parse_with_chapters over chapter_matches
ChaptersOfMatches(s, chapter_matches) ==
    [i \in 1..Len(chapter_matches) |->
        ChapterOfMatch(s, chapter_matches[i],
                       IF i + 1 <= Len(chapter_matches)
                       THEN chapter_matches[i + 1].start ELSE Len(s) + 1)]

\* ArticleParser._parse_with_chapters
ParseWithChapters(s) == ChaptersOfMatches(s, ChapterFindIter(s, 1))

\* parse that also fills the flat list of a text with chapters
ParseBoth(s) ==
    IF ChapterSearch(s)
    THEN [chapters |-> ParseWithChapters(s), articles |-> ParseArticlesOnly(s)]
    ELSE [chapters |-> <<>>, articles |-> ParseArticlesOnly(s)]

\* ArticleParser.parse: the pair it returns
ParseText(s) ==
    IF ChapterSearch(s)
    THEN [chapters |-> ParseWithChapters(s), articles |-> <<>>]
    ELSE [chapters |-> <<>>, articles |-> ParseArticlesOnly(s)]

-----------------------------------------------------------------------------
(* Letter case.  A word symbol stands in the text in one of three forms:  *)
(* lower case, capitalised, upper case.                                    *)

CaseForms ==
    { <<"ot", "Ot", "OT">>, <<"g", "G", "G">>, <<"n", "N", "N">>,
      <<"fz", "Fz", "FZ">>,
      <<"yanvarya", "Yanvarya", "YANVARYA">>, <<"fevralya", "Fevralya", "FEVRALYA">>,
      <<"marta", "Marta", "MARTA">>, <<"aprelya", "Aprelya", "APRELYA">>,
      <<"maya", "Maya", "MAYA">>, <<"iyunya", "Iyunya", "IYUNYA">>,
      <<"iyulya", "Iyulya", "IYULYA">>, <<"avgusta", "Avgusta", "AVGUSTA">>,
      <<"sentyabrya", "Sentyabrya", "SENTYABRYA">>,
      <<"oktyabrya", "Oktyabrya", "OKTYABRYA">>,
      <<"noyabrya", "Noyabrya", "NOYABRYA">>, <<"dekabrya", "Dekabrya", "DEKABRYA">>,
      <<"federalnyi", "Federalnyi", "FEDERALNYI">>, <<"zakon", "Zakon", "ZAKON">>,
      <<"postanovlenie", "Postanovlenie", "POSTANOVLENIE">>,
      <<"pravitelstva", "Pravitelstva", "PRAVITELSTVA">>, <<"rf", "Rf", "RF">>,
      <<"prikaz", "Prikaz", "PRIKAZ">>, <<"ukaz", "Ukaz", "UKAZ">>,
      <<"prezidenta", "Prezidenta", "PREZIDENTA">>,
      <<"rasporyazhenie", "Rasporyazhenie", "RASPORYAZHENIE">>,
      <<"dokument", "Dokument", "DOKUMENT">>,
      <<"gosudarstvennaya", "Gosudarstvennaya", "GOSUDARSTVENNAYA">>,
      <<"duma", "Duma", "DUMA">>,
      <<"pravitelstvo", "Pravitelstvo", "PRAVITELSTVO">>,
      <<"rossiiskoi", "Rossiiskoi", "ROSSIISKOI">>,
      <<"federatsii", "Federatsii", "FEDERATSII">>,
      <<"prezident", "Prezident", "PREZIDENT">>,
      <<"o", "O", "O">>, <<"sisteme", "Sisteme", "SISTEME">>,
      <<"bez", "Bez", "BEZ">>, <<"nazvaniya", "Nazvaniya", "NAZVANIYA">>,
      <<"deistvuyushchii", "Deistvuyushchii", "DEISTVUYUSHCHII">>,
      <<"utrativshii", "Utrativshii", "UTRATIVSHII">>, <<"silu", "Silu", "SILU">>,
      <<"proekt", "Proekt", "PROEKT">> }

\* the symbols that have case forms
Cased == UNION {{f[1], f[2], f[3]} : f \in CaseForms}

\* the lower-case form of every cased symbol
LowerForm == [c \in Cased |-> (CHOOSE f \in CaseForms : c \in {f[1], f[2], f[3]})[1]]

\* the upper-case form of every cased symbol
UpperForm == [c \in Cased |-> (CHOOSE f \in CaseForms : c \in {f[1], f[2], f[3]})[3]]

\* str.lower() of one symbol
LowerSym(c) == IF c \in Cased THEN LowerForm[c] ELSE c

\* str.upper() of one symbol
UpperSym(c) == IF c \in Cased THEN UpperForm[c] ELSE c

\* str.upper()
Upper(s) == [i \in 1..Len(s) |-> UpperSym(s[i])]

\* str.lower()
Lower(s) == [i \in 1..Len(s) |-> LowerSym(s[i])]

\* two symbols that match under re.IGNORECASE
EqI(c, lit) == LowerSym(c) = LowerSym(lit)

\* \w of the patterns: a letter, a digit or an underscore
IsWord(c) == c \notin {SP, NL, ".", ",", "-", ")", "(", "\"", ":"}

\* the literal phrase ph matches at position i under re.IGNORECASE
PhraseAt(s, i, ph) ==
    /\ i >= 1
    /\ i + Len(ph) - 1 <= Len(s)
    /\ \A k \in 1..Len(ph) : EqI(s[i + k - 1], ph[k])

-----------------------------------------------------------------------------
(* The patterns of MetadataExtractor, compiled with IGNORECASE | DOTALL *)

\* the alternatives of PATTERNS['doc_type'] with every generic phrase ahead
\* of its qualified forms
DocTypePhrasesGenericFirst ==
    << <<"FEDERALNYI", SP, "ZAKON">>,
       <<"POSTANOVLENIE">>,
       <<"POSTANOVLENIE", SP, "PRAVITELSTVA", SP, "RF">>,
       <<"PRIKAZ">>,
       <<"UKAZ">>,
       <<"UKAZ", SP, "PREZIDENTA", SP, "RF">>,
       <<"RASPORYAZHENIE">> >>

\* PATTERNS['doc_type']: the alternatives in their order
DocTypePhrases ==
    << <<"FEDERALNYI", SP, "ZAKON">>,
       <<"POSTANOVLENIE", SP, "PRAVITELSTVA", SP, "RF">>,
       <<"POSTANOVLENIE">>,
       <<"PRIKAZ">>,
       <<"UKAZ", SP, "PREZIDENTA", SP, "RF">>,
       <<"UKAZ">>,
       <<"RASPORYAZHENIE">> >>

\* PATTERNS['title']: the alternatives of its first group
TitlePhrases ==
    << <<"FEDERALNYI", SP, "ZAKON">>, <<"POSTANOVLENIE">>, <<"PRIKAZ">>,
       <<"UKAZ">>, <<"RASPORYAZHENIE">> >>

\* PATTERNS['authority']: the alternatives in their order
AuthorityPhrases ==
    << <<"Gosudarstvennaya", SP, "Duma">>,
       <<"Pravitelstvo", SP, "Rossiiskoi", SP, "Federatsii">>,
       <<"Pravitelstvo", SP, "RF">>,
       <<"Prezident", SP, "Rossiiskoi", SP, "Federatsii">>,
       <<"Prezident", SP, "RF">> >>

\* MetadataExtractor.MONTHS
MONTHS ==
    [yanvarya |-> 1, fevralya |-> 2, marta |-> 3, aprelya |-> 4, maya |-> 5,
     iyunya |-> 6, iyulya |-> 7, avgusta |-> 8, sentyabrya |-> 9,
     oktyabrya |-> 10, noyabrya |-> 11, dekabrya |-> 12]

\* the alternation of month names in PATTERNS['number_date_1']
IsMonthName(c) == LowerSym(c) \in DOMAIN MONTHS

\* self.MONTHS.get(month_name, 1)
MonthsGet(month_name) ==
    IF month_name \in DOMAIN MONTHS THEN MONTHS[month_name] ELSE 1

\* an alternation of phrases tried at position i: the first alternative, in
\* the order of the pattern, that matches there (0 when none does)
FirstPhraseAt(s, i, phrases) ==
    IF \E a \in 1..Len(phrases) : PhraseAt(s, i, phrases[a])
    THEN CHOOSE a \in 1..Len(phrases) :
             /\ PhraseAt(s, i, phrases[a])
             /\ \A b \in 1..a - 1 : ~PhraseAt(s, i, phrases[b])
    ELSE 0

RECURSIVE PhraseSearch(_, _, _)
\* re.search of an alternation of phrases, scanning from position i: the
\* leftmost position where an alternative matches, and the matched text
PhraseSearch(s, i, phrases) ==
    IF i > Len(s) THEN NoMatch
    ELSE Bind(FirstPhraseAt(s, i, phrases), LAMBDA a :
             IF a = 0 THEN PhraseSearch(s, i + 1, phrases)
             ELSE [ok |-> TRUE, start |-> i, end |-> i + Len(phrases[a]),
                   group1 |-> Slice(s, i, i + Len(phrases[a]))])

RECURSIVE SkipDots(_, _)
\* the position after the longest run of '.' starting at i
SkipDots(s, i) ==
    IF i <= Len(s) /\ s[i] = "." THEN SkipDots(s, i + 1) ELSE i

RECURSIVE SkipNumber(_, _)
\* the position after the longest run of [\w-] starting at i
SkipNumber(s, i) ==
    IF i <= Len(s) /\ (IsWord(s[i]) \/ s[i] = "-") THEN SkipNumber(s, i + 1) ELSE i

\* all the symbols of [a, b) are digits, and they are in the text
DigitsAt(s, a, b) == b - 1 <= Len(s) /\ \A k \in a..b - 1 : IsDigit(s[k])

\* the tail N\s*([\d-]+[\w-]*) of both number/date patterns from position n:
\* h is where \s* ends; the number is the longest run of [\w-] from h, which
\* has to start with a digit or a hyphen
NumberTail(s, n) ==
    IF ~(n <= Len(s) /\ EqI(s[n], "N")) THEN NoMatch
    ELSE Bind(SkipSpaces(s, n + 1), LAMBDA h :
             IF h <= Len(s) /\ (IsDigit(s[h]) \/ s[h] = "-")
             THEN [ok |-> TRUE, number |-> Slice(s, h, SkipNumber(s, h)),
                   end |-> SkipNumber(s, h)]
             ELSE NoMatch)

\* PATTERNS['number_date_1'] =
\*   от\s+(\d{1,2})\s+(января|...|декабря)\s+(\d{4})\s*г?\.*\s*N\s*([\d-]+[\w-]*)
\* tried at position i: b is where the day starts, c where it ends, e where
\* the month name stands, f where the year starts, y where it ends, g where
\* the optional г would stand
NumberDate1At(s, i) ==
    IF ~(i <= Len(s) /\ EqI(s[i], "ot")) THEN NoMatch
    ELSE
    Bind(SkipSpaces(s, i + 1), LAMBDA b :
    Bind(SkipDigits(s, b), LAMBDA c :
    Bind(SkipSpaces(s, c), LAMBDA e :
    Bind(SkipSpaces(s, e + 1), LAMBDA f :
    Bind(f + 4, LAMBDA y :
    Bind(SkipSpaces(s, y), LAMBDA g :
    Bind(NumberTail(s, SkipSpaces(s, SkipDots(s,
             IF g <= Len(s) /\ EqI(s[g], "g") THEN g + 1 ELSE g))), LAMBDA tail :
        IF /\ b > i + 1
           /\ c - b \in {1, 2}
           /\ e > c
           /\ e <= Len(s) /\ IsMonthName(s[e])
           /\ f > e + 1
           /\ DigitsAt(s, f, y)
           /\ tail.ok
        THEN [ok |-> TRUE, start |-> i, end |-> tail.end,
              group1 |-> Slice(s, b, c), group2 |-> s[e],
              group3 |-> Slice(s, f, y), group4 |-> tail.number]
        ELSE NoMatch)))))))

\* PATTERNS['number_date_2'] = от\s+(\d{2}\.\d{2}\.\d{4})\s*N\s*([\d-]+[\w-]*)
\* tried at position i: b is where the date starts
NumberDate2At(s, i) ==
    IF ~(i <= Len(s) /\ EqI(s[i], "ot")) THEN NoMatch
    ELSE
    Bind(SkipSpaces(s, i + 1), LAMBDA b :
    Bind(NumberTail(s, SkipSpaces(s, b + 10)), LAMBDA tail :
        IF /\ b > i + 1
           /\ DigitsAt(s, b, b + 2)
           /\ b + 2 <= Len(s) /\ s[b + 2] = "."
           /\ DigitsAt(s, b + 3, b + 5)
           /\ b + 5 <= Len(s) /\ s[b + 5] = "."
           /\ DigitsAt(s, b + 6, b + 10)
           /\ tail.ok
        THEN [ok |-> TRUE, start |-> i, end |-> tail.end,
              group1 |-> Slice(s, b, b + 10), group2 |-> tail.number]
        ELSE NoMatch))

RECURSIVE NumberDate1Search(_, _)
\* self.compiled_patterns['number_date_1'].search(text), scanning from i
NumberDate1Search(s, i) ==
    IF i > Len(s) THEN NoMatch
    ELSE Bind(NumberDate1At(s, i), LAMBDA m :
             IF m.ok THEN m ELSE NumberDate1Search(s, i + 1))

RECURSIVE NumberDate2Search(_, _)
\* self.compiled_patterns['number_date_2'].search(text), scanning from i
NumberDate2Search(s, i) ==
    IF i > Len(s) THEN NoMatch
    ELSE Bind(NumberDate2At(s, i), LAMBDA m :
             IF m.ok THEN m ELSE NumberDate2Search(s, i + 1))

RECURSIVE FindBlankLine(_, _)
\* the first position from j on where \n\n stands (0 when there is none)
FindBlankLine(s, j) ==
    IF j + 1 > Len(s) THEN 0
    ELSE IF s[j] = NL /\ s[j + 1] = NL THEN j
    ELSE FindBlankLine(s, j + 1)

RECURSIVE TitleGroupEnd(_, _)
\* where the lazy (.+?) of PATTERNS['title'] stops when it has reached k:
\* at the first place where \n\n stands or where $ matches, which without
\* re.MULTILINE is the end of the string or a newline that ends the string
TitleGroupEnd(s, k) ==
    IF k > Len(s) THEN k
    ELSE IF k = Len(s) /\ s[k] = NL THEN k
    ELSE IF k + 1 <= Len(s) /\ s[k] = NL /\ s[k + 1] = NL THEN k
    ELSE TitleGroupEnd(s, k + 1)

\* PATTERNS['title'] =
\*   (?:ФЕДЕРАЛЬНЫЙ ЗАКОН|ПОСТАНОВЛЕНИЕ|ПРИКАЗ|УКАЗ|РАСПОРЯЖЕНИЕ).*?\n\n(.+?)(?:\n\n|$)
\* tried at position i, where alternative a matches: the lazy .*? runs to
\* the first \n\n at position j, and the group takes one symbol or more
TitleAt(s, i, a) ==
    Bind(FindBlankLine(s, i + Len(TitlePhrases[a])), LAMBDA j :
        IF j = 0 \/ j + 2 > Len(s) THEN NoMatch
        ELSE [ok |-> TRUE, start |-> i,
              group1 |-> Slice(s, j + 2, TitleGroupEnd(s, j + 3))])

RECURSIVE TitleSearch(_, _)
\* self.compiled_patterns['title'].search(text), scanning from i
TitleSearch(s, i) ==
    IF i > Len(s) THEN NoMatch
    ELSE Bind(FirstPhraseAt(s, i, TitlePhrases), LAMBDA a :
             IF a # 0 /\ TitleAt(s, i, a).ok THEN TitleAt(s, i, a)
             ELSE TitleSearch(s, i + 1))

RECURSIVE CollapseSpaces(_)
\* re.sub(r'\s+', ' ', title)
CollapseSpaces(s) ==
    IF s = <<>> THEN <<>>
    ELSE IF IsSpace(s[1])
         THEN <<SP>> \o CollapseSpaces(SubSeq(s, SkipSpaces(s, 1), Len(s)))
         ELSE <<s[1]>> \o CollapseSpaces(Tail(s))

RECURSIVE LStripQuotes(_)
LStripQuotes(s) ==
    IF s # <<>> /\ Head(s) = "\"" THEN LStripQuotes(Tail(s)) ELSE s

RECURSIVE RStripQuotes(_)
RStripQuotes(s) ==
    IF s # <<>> /\ s[Len(s)] = "\""
    THEN RStripQuotes(SubSeq(s, 1, Len(s) - 1)) ELSE s

\* title.strip('"')
StripQuotes(s) == RStripQuotes(LStripQuotes(s))

-----------------------------------------------------------------------------
(* datetime *)

IsLeapYear(year) ==
    year % 4 = 0 /\ (year % 100 # 0 \/ year % 400 = 0)

DaysInMonth(year, month) ==
    CASE month \in {4, 6, 9, 11} -> 30
      [] month = 2 -> IF IsLeapYear(year) THEN 29 ELSE 28
      [] OTHER -> 31

\* datetime(year, month, day) does not raise ValueError
ValidDate(year, month, day) ==
    /\ year \in 1..9999
    /\ month \in 1..12
    /\ day \in 1..DaysInMonth(year, month)

\* datetime(year, month, day)
Date(year, month, day) ==
    [year |-> year, month |-> month, day |-> day, now |-> 0]

\* datetime.now() at time t (t >= 1)
Now(t) == [year |-> 0, month |-> 0, day |-> 0, now |-> t]

-----------------------------------------------------------------------------
(* DocumentMetadata *)

NA == <<"N", "/", "A">>                             \* "N/A"
DOKUMENT == <<"DOKUMENT">>                          \* "ДОКУМЕНТ"
ACTIVE == <<"deistvuyushchii">>                     \* "действующий"
REPEALED == <<"utrativshii", SP, "silu">>           \* "утративший силу"
DRAFT == <<"proekt">>                               \* "проект"
KONSULTANT == <<"KonsultantPlyus">>                 \* "КонсультантПлюс"

\* DocumentMetadata.validate_doc_type
ValidateDocType(v) == Strip(Upper(v))

\* validate_status that returns a recognised value as it was given
ValidateStatusAsGiven(v) ==
    IF Lower(v) \notin {ACTIVE, REPEALED, DRAFT} THEN ACTIVE ELSE v

\* DocumentMetadata.validate_status
ValidateStatus(v) ==
    IF Lower(v) \notin {ACTIVE, REPEALED, DRAFT} THEN ACTIVE ELSE Lower(v)

\* DocumentMetadata(doc_type=..., number=..., date=..., title=...,
\* authority=..., status=...): the validators run on construction
DocumentMetadata(doc_type, number, date, title, authority, status) ==
    [doc_type |-> ValidateDocType(doc_type), number |-> number, date |-> date,
     title |-> title, authority |-> authority,
     status |-> ValidateStatus(status), version_date |-> None,
     categories |-> <<>>, references |-> <<>>, source |-> KONSULTANT]

-----------------------------------------------------------------------------
(* MetadataExtractor *)

\* what a method gives back: a value, or an exception that leaves it
Returned(v) == [raised |-> FALSE, value |-> v]
Raised == [raised |-> TRUE]

\* MetadataExtractor._extract_doc_type
ExtractDocType(s) ==
    Bind(PhraseSearch(s, 1, DocTypePhrases), LAMBDA match :
        IF match.ok THEN Some(Strip(Upper(match.group1))) ELSE None)

\* the first branch with the month looked up as it is written, not lowered
TextualDateAsWritten(match) ==
    Bind(IntOf(match.group1), LAMBDA day :
    Bind(MonthsGet(match.group2), LAMBDA month :
    Bind(IntOf(match.group3), LAMBDA year :
        IF ValidDate(year, month, day)
        THEN Returned([number |-> Some(match.group4),
                       date |-> Some(Date(year, month, day))])
        ELSE Raised)))

\* the first branch of _extract_number_and_date: datetime(year, month, day)
\* is called with no try around it
TextualDate(match) ==
    Bind(IntOf(match.group1), LAMBDA day :
    Bind(MonthsGet(LowerSym(match.group2)), LAMBDA month :
    Bind(IntOf(match.group3), LAMBDA year :
        IF ValidDate(year, month, day)
        THEN Returned([number |-> Some(match.group4),
                       date |-> Some(Date(year, month, day))])
        ELSE Raised)))

\* datetime.strptime(date_str, '%d.%m.%Y') of a string \d{2}\.\d{2}\.\d{4}:
\* None when it raises ValueError
Strptime(date_str) ==
    Bind(IntOf(SubSeq(date_str, 1, 2)), LAMBDA day :
    Bind(IntOf(SubSeq(date_str, 4, 5)), LAMBDA month :
    Bind(IntOf(SubSeq(date_str, 7, 10)), LAMBDA year :
        IF ValidDate(year, month, day)
        THEN Some(Date(year, month, day)) ELSE None)))

\* the second branch with the number kept when strptime raises
NumericDateKeepsNumber(match) ==
    IF match.ok
    THEN Returned([number |-> Some(match.group2),
                   date |-> Strptime(match.group1)])
    ELSE Returned([number |-> None, date |-> None])

\* the second branch of _extract_number_and_date and its last line
NumericDate(match) ==
    IF match.ok /\ Strptime(match.group1) # None
    THEN Returned([number |-> Some(match.group2),
                   date |-> Some(Strptime(match.group1)[1])])
    ELSE Returned([number |-> None, date |-> None])

\* the second branch of _extract_number_and_date tried before the first
NumericDateFirst(s) ==
    Bind(NumberDate2Search(s, 1), LAMBDA match2 :
        IF match2.ok /\ Strptime(match2.group1) # None
        THEN NumericDate(match2)
        ELSE Bind(NumberDate1Search(s, 1), LAMBDA match :
                 IF match.ok THEN TextualDate(match) ELSE NumericDate(match2)))

\* MetadataExtractor._extract_number_and_date
ExtractNumberAndDate(s) ==
    Bind(NumberDate1Search(s, 1), LAMBDA match :
        IF match.ok THEN TextualDate(match)
        ELSE NumericDate(NumberDate2Search(s, 1)))

\* _extract_title that returns the group as matched, only stripped
ExtractTitleAsMatched(s) ==
    Bind(TitleSearch(s, 1), LAMBDA match :
        IF match.ok THEN Some(Strip(match.group1)) ELSE None)

\* MetadataExtractor._extract_title
ExtractTitle(s) ==
    Bind(TitleSearch(s, 1), LAMBDA match :
        IF match.ok
        THEN Some(StripQuotes(CollapseSpaces(Strip(match.group1))))
        ELSE None)

\* data.get(key, default), for the optional value data holds under key
DictGet(value, default) == IF value = None THEN default ELSE value[1]

\* MetadataExtractor.extract_from_dict, called at time t
ExtractFromDict(data, t) ==
    DocumentMetadata(DictGet(data.doc_type, DOKUMENT), DictGet(data.number, NA),
                     DictGet(data.date, Now(t)),
                     DictGet(data.title, <<"Bez", SP, "nazvaniya">>),
                     data.authority, DictGet(data.status, ACTIVE))

\* MetadataExtractor._extract_authority
ExtractAuthority(s) ==
    Bind(PhraseSearch(s, 1, AuthorityPhrases), LAMBDA match :
        IF match.ok THEN Some(Strip(match.group1)) ELSE None)

\* x or y, for an optional string x
OrElse(x, y) == IF x = None \/ x = Some(<<>>) THEN y ELSE x[1]

\* date or datetime.now(): a datetime is never false
DateOrNow(date, t) == IF date = None THEN Now(t) ELSE date[1]

\* the construction of the DocumentMetadata at the end of extract
ExtractMetadata(doc_type, nd, title, authority, fallback_title, t) ==
    DocumentMetadata(OrElse(doc_type, DOKUMENT), OrElse(nd.number, NA),
                     DateOrNow(nd.date, t), OrElse(title, fallback_title),
                     authority, ACTIVE)

\* the default of the parameter fallback_title of extract
DefaultFallbackTitle == <<"Bez", SP, "nazvaniya">>    \* Без названия

\* MetadataExtractor.extract, called at time t
Extract(s, fallback_title, t) ==
    Bind(ExtractNumberAndDate(s), LAMBDA nd :
        IF nd.raised THEN Raised
        ELSE Returned(ExtractMetadata(ExtractDocType(s), nd.value,
                                      ExtractTitle(s), ExtractAuthority(s),
                                      fallback_title, t)))

-----------------------------------------------------------------------------
(* NPADocument and NPAParser *)

\* NPADocument(metadata=..., preamble=..., chapters=..., articles=...,
\* raw_text=..., source_file=...): the two lists are independent fields and
\* no validator relates them
NPADocument(meta, preamble, chs, arts, raw_text, source_file) ==
    [metadata |-> meta, preamble |-> preamble, chapters |-> chs,
     articles |-> arts, raw_text |-> raw_text, source_file |-> source_file]

\* the number of characters of raw_text given to the metadata extractor
MetadataPrefixLength == 3000

\* raw_text[:n] (a symbol counts as one character)
Prefix(s, n) == SubSeq(s, 1, IF Len(s) < n THEN Len(s) ELSE n)

\* re.search(r'^Статья\s+\d+', text, re.MULTILINE) matches at position i
PreambleArticleAt(s, i) ==
    /\ LineStart(s, i) /\ s[i] = "Statya"
    /\ SkipSpaces(s, i + 1) > i + 1
    /\ SkipSpaces(s, i + 1) <= Len(s)
    /\ IsDigit(s[SkipSpaces(s, i + 1)])

\* re.search(r'^(Глава|Раздел)\s+', text, re.MULTILINE) matches at position i
PreambleChapterAt(s, i) ==
    /\ LineStart(s, i) /\ IsChapterWord(s[i])
    /\ i + 1 <= Len(s) /\ IsSpace(s[i + 1])

RECURSIVE FirstHeader(_, _)
\* first_match.start() of _extract_preamble, scanning from i: the start of
\* the nearer of the two matches (0 when neither pattern matches)
FirstHeader(s, i) ==
    IF i > Len(s) THEN 0
    ELSE IF PreambleArticleAt(s, i) \/ PreambleChapterAt(s, i) THEN i
    ELSE FirstHeader(s, i + 1)

\* lines[5:] if len(lines) > 5 else lines
PreambleLines(lines) ==
    IF Len(lines) > 5 THEN SubSeq(lines, 6, Len(lines)) ELSE lines

\* NPAParser._extract_preamble
ExtractPreamble(s) ==
    Bind(FirstHeader(s, 1), LAMBDA start :
        IF start = 0 THEN <<>>
        ELSE Strip(Join(<<NL>>, PreambleLines(Split(Strip(Slice(s, 1, start)))))))

\* str(pdf_file.absolute())
SourceFile == Some(<<"pdf_path">>)

\* steps 2 to 5 of NPAParser.parse on the text raw_text of the PDF, at time
\* t, with the attribute extract_preamble of the NPAParser
AssembleDocument(raw_text, t, extract_preamble) ==
    Bind(Extract(Prefix(raw_text, MetadataPrefixLength), DefaultFallbackTitle, t),
         LAMBDA meta :
        IF meta.raised THEN Raised
        ELSE Returned(NPADocument(
                 meta.value,
                 IF extract_preamble THEN ExtractPreamble(raw_text) ELSE <<>>,
                 ParseText(raw_text).chapters, ParseText(raw_text).articles,
                 raw_text, SourceFile)))

-----------------------------------------------------------------------------
(* to_markdown of ArticlePart, Article and Chapter *)

\* str() of one decimal digit
DigitChar(d) ==
    CASE d = 0 -> "0" [] d = 1 -> "1" [] d = 2 -> "2" [] d = 3 -> "3"
      [] d = 4 -> "4" [] d = 5 -> "5" [] d = 6 -> "6" [] d = 7 -> "7"
      [] d = 8 -> "8" [] d = 9 -> "9"

RECURSIVE Str(_)
\* str() of an integer n >= 0, as an f-string formats it
Str(n) == IF n < 10 THEN <<DigitChar(n)>>
          ELSE Str(n \div 10) \o <<DigitChar(n % 10)>>

\* "   " * indent_level
Indent(indent_level) ==
    [i \in 1..3 * indent_level |-> SP]

\* ArticlePart.to_markdown with the subparts put before the line of the part
PartToMarkdownBulletsFirst(part, indent_level) ==
    Join(<<NL>>,
         [j \in 1..Len(part.subparts) |->
             Indent(indent_level) \o <<SP, SP, SP, "-", SP>> \o part.subparts[j]]
             \o <<Str(part.number) \o <<".", SP>> \o part.text>>)

\* ArticlePart.to_markdown
PartToMarkdown(part, indent_level) ==
    Join(<<NL>>,
         <<Str(part.number) \o <<".", SP>> \o part.text>>
             \o [j \in 1..Len(part.subparts) |->
                    Indent(indent_level) \o <<SP, SP, SP, "-", SP>>
                        \o part.subparts[j]])

RECURSIVE Flatten(_)
\* the list the appends of a loop build: the lists of its iterations in a row
Flatten(lists) ==
    IF lists = <<>> THEN <<>> ELSE Head(lists) \o Flatten(Tail(lists))

\* Article.to_markdown
ArticleToMarkdown(a) ==
    Join(<<NL>>,
         << <<"#", "#", "#", SP, "Statya", SP>> \o a.number \o <<".", SP>>
                \o a.title,
            <<>> >>
             \o (IF a.parts # <<>>
                 THEN Flatten([k \in 1..Len(a.parts) |->
                                  <<PartToMarkdown(a.parts[k], 0), <<>>>>])
                 ELSE <<a.full_text, <<>>>>))

\* Chapter.to_markdown
ChapterToMarkdown(chapter) ==
    Join(<<NL>>,
         << <<"#", "#", SP, "Glava", SP>> \o Str(chapter.number) \o <<".", SP>>
                \o chapter.title,
            <<>> >>
             \o [i \in 1..Len(chapter.articles) |->
                    ArticleToMarkdown(chapter.articles[i])])

-----------------------------------------------------------------------------
(* The methods of NPADocument and of its articles *)

\* the number of characters of a symbol: a word symbol stands for the
\* letters of its word, any other symbol is one character
WordLength ==
    [ot |-> 2, g |-> 1, n |-> 1, fz |-> 2, yanvarya |-> 6, fevralya |-> 7,
     marta |-> 5, aprelya |-> 6, maya |-> 3, iyunya |-> 4, iyulya |-> 4,
     avgusta |-> 7, sentyabrya |-> 8, oktyabrya |-> 7, noyabrya |-> 6,
     dekabrya |-> 7, federalnyi |-> 11, zakon |-> 5, postanovlenie |-> 13,
     pravitelstva |-> 13, rf |-> 2, prikaz |-> 6, ukaz |-> 4, prezidenta |-> 10,
     rasporyazhenie |-> 12, dokument |-> 8, gosudarstvennaya |-> 15, duma |-> 4,
     pravitelstvo |-> 13, rossiiskoi |-> 10, federatsii |-> 9, prezident |-> 9,
     o |-> 1, sisteme |-> 7, bez |-> 3, nazvaniya |-> 8, deistvuyushchii |-> 11,
     utrativshii |-> 10, silu |-> 4, proekt |-> 6,
     Statya |-> 6, Glava |-> 5, Razdel |-> 6, Tekst |-> 5, odin |-> 4,
     dva |-> 3, pod |-> 3]

SymbolLength(c) ==
    IF LowerSym(c) \in DOMAIN WordLength THEN WordLength[LowerSym(c)] ELSE 1

RECURSIVE StrLen(_)
\* len() of a string
StrLen(s) == IF s = <<>> THEN 0 ELSE SymbolLength(Head(s)) + StrLen(Tail(s))

RECURSIVE Sum(_)
\* sum() of a sequence of integers
Sum(ns) == IF ns = <<>> THEN 0 ELSE Head(ns) + Sum(Tail(ns))

\* sum(f(x) for x in items)
SumOver(items, f(_)) == Sum([i \in 1..Len(items) |-> f(items[i])])

\* Article.get_token_estimate
GetTokenEstimate(a) ==
    (IF a.full_text # <<>> THEN StrLen(a.full_text)
     ELSE SumOver(a.parts, LAMBDA part : StrLen(part.text))) \div 4

\* total_articles of get_statistics with the chapters left out
TotalArticlesFlat(doc) == Len(doc.articles)

\* total_articles of get_statistics
TotalArticles(doc) ==
    IF doc.articles # <<>> THEN Len(doc.articles)
    ELSE SumOver(doc.chapters, LAMBDA chapter : Len(chapter.articles))

\* total_tokens of get_statistics as one estimate of all the characters
\* together: the lengths are added up first and divided once
TotalTokensPooled(doc) ==
    (IF doc.articles # <<>>
     THEN SumOver(doc.articles, LAMBDA a : StrLen(a.full_text))
     ELSE SumOver(doc.chapters,
                  LAMBDA chapter :
                      SumOver(chapter.articles,
                              LAMBDA a : StrLen(a.full_text)))) \div 4

\* total_tokens of get_statistics
TotalTokens(doc) ==
    IF doc.articles # <<>> THEN SumOver(doc.articles, GetTokenEstimate)
    ELSE SumOver(doc.chapters,
                 LAMBDA chapter : SumOver(chapter.articles, GetTokenEstimate))

\* NPADocument.get_statistics
GetStatistics(doc) ==
    [chapters |-> Len(doc.chapters), articles |-> TotalArticles(doc),
     estimated_tokens |-> TotalTokens(doc),
     has_preamble |-> doc.preamble # <<>>,
     doc_type |-> doc.metadata.doc_type, status |-> doc.metadata.status]

RECURSIVE SearchArticlesLast(_, _, _)
\* the search of a list of articles, from the i-th on, that goes on after a
\* match and so returns the last article with the number
SearchArticlesLast(arts, i, article_number) ==
    IF i > Len(arts) THEN None
    ELSE Bind(SearchArticlesLast(arts, i + 1, article_number), LAMBDA later :
             IF later # None THEN later
             ELSE IF arts[i].number = article_number THEN Some(arts[i])
             ELSE None)

RECURSIVE SearchArticles(_, _, _)
\* 'for article in arts: if article.number == article_number: return
\* article', from the i-th article on; None when the loop ends
SearchArticles(arts, i, article_number) ==
    IF i > Len(arts) THEN None
    ELSE IF arts[i].number = article_number THEN Some(arts[i])
    ELSE SearchArticles(arts, i + 1, article_number)

RECURSIVE SearchChapters(_, _, _)
\* the loop of get_article_by_number over self.chapters, from the c-th on
SearchChapters(chs, c, article_number) ==
    IF c > Len(chs) THEN None
    ELSE Bind(SearchArticles(chs[c].articles, 1, article_number), LAMBDA found :
             IF found # None THEN found
             ELSE SearchChapters(chs, c + 1, article_number))

\* NPADocument.get_article_by_number: None, or Some(article)
GetArticleByNumber(doc, article_number) ==
    Bind(SearchArticles(doc.articles, 1, article_number), LAMBDA found :
        IF found # None THEN found
        ELSE SearchChapters(doc.chapters, 1, article_number))

-----------------------------------------------------------------------------
(* ArticleParser.parse step by step.  An invocation keeps its local       *)
(* variables in a frame of its own; the objects it creates (the subparts  *)
(* lists, ArticlePart, Article, Chapter) are allocated on a heap all      *)
(* invocations share, and lists of objects hold their ids.                *)

Invocations == {1, 2}
Instances == {1, 2}

\* ArticleParser.__init__: the attributes of a new instance
NewArticleParser ==
    [article_regex |-> "ARTICLE_PATTERN", chapter_regex |-> "CHAPTER_PATTERN",
     part_regex |-> "PART_PATTERN"]

\* regex.search(text) of a compiled attribute, as a truth value
RegexSearch(regex, s) == regex = "CHAPTER_PATTERN" /\ ChapterSearch(s)

\* list(regex.finditer(text)) of a compiled attribute
RegexFindIter(regex, s) ==
    CASE regex = "ARTICLE_PATTERN" -> ArticleFindIter(s, 1)
      [] regex = "CHAPTER_PATTERN" -> ChapterFindIter(s, 1)
      [] OTHER -> <<>>

\* regex.match(line) of a compiled attribute
RegexMatch(regex, line) ==
    IF regex = "PART_PATTERN" THEN PartMatch(line) ELSE NoMatch

\* the id of the next object allocated on heap h
NewId(h) == Len(h) + 1

\* heap h with a new object
Alloc(h, obj) == Append(h, obj)

\* a list object: [] and what is appended to it
ListObject(items) == [kind |-> "list", items |-> items]

\* an ArticlePart object: subparts is the id of a list object
PartObject(number, ptext, subparts) ==
    [kind |-> "ArticlePart", number |-> number, text |-> ptext,
     subparts |-> subparts]

\* an Article object: parts is a sequence of ids of ArticlePart objects
ArticleObject(number, title, parts, full_text, chapter_number, chapter_title) ==
    [kind |-> "Article", number |-> number, title |-> title, parts |-> parts,
     full_text |-> full_text, chapter_number |-> chapter_number,
     chapter_title |-> chapter_title]

\* a Chapter object: articles is a sequence of ids of Article objects
ChapterObject(number, title, arts) ==
    [kind |-> "Chapter", number |-> number, title |-> title, articles |-> arts]

\* the local variables of parse and of the methods it calls, before any of
\* them has been assigned
EmptyFrame ==
    [self |-> NewArticleParser,
     \* parse
     text |-> <<>>, has_chapters |-> FALSE,
     \* _parse_with_chapters
     chapters |-> <<>>, chapter_matches |-> <<>>, i |-> 0,
     chapter_number |-> 0, chapter_title |-> <<>>,
     \* _parse_articles_from_text
     a_text |-> <<>>, a_chapter_number |-> None, a_chapter_title |-> None,
     articles |-> <<>>, article_matches |-> <<>>, j |-> 0,
     article_number |-> <<>>, article_title |-> <<>>, article_text |-> <<>>,
     \* _parse_article_parts
     parts |-> <<>>, lines |-> <<>>, k |-> 0, current_part_number |-> None,
     current_part_text |-> <<>>, subparts |-> 0]

\* what a step makes of the frame and the heap, where the invocation stands
\* after it and what it returns
StepTo(fr, h, at) == [fr |-> fr, heap |-> h, pc |-> at, ret |-> None]

StepReturn(fr, h, chs, arts) ==
    [fr |-> fr, heap |-> h, pc |-> "returned",
     ret |-> Some([chapters |-> chs, articles |-> arts])]

\* articles = [] at the start of _parse_articles_from_text, kept from the
\* call before instead
ArticlesKept(fr) == fr.articles

\* articles = [] at the start of _parse_articles_from_text
ArticlesAtEntry(fr) == <<>>

\* the call _parse_articles_from_text(a_text, chapter_number, chapter_title)
\* up to its loop
EnterArticles(fr, a_text, chapter_number, chapter_title) ==
    [fr EXCEPT !.a_text = a_text,
               !.a_chapter_number = chapter_number,
               !.a_chapter_title = chapter_title,
               !.articles = ArticlesAtEntry(fr),
               !.article_matches = RegexFindIter(fr.self.article_regex, a_text),
               !.j = 1]

\* parse(text) on the instance self up to the loop it reaches first
ParseStartStep(fr, h, self, s) ==
    IF RegexSearch(self.chapter_regex, s)
    THEN StepTo([fr EXCEPT !.self = self, !.text = s, !.has_chapters = TRUE,
                           !.chapters = <<>>,
                           !.chapter_matches = RegexFindIter(self.chapter_regex, s),
                           !.i = 1],
                h, "chapter_loop")
    ELSE StepTo(EnterArticles([fr EXCEPT !.self = self, !.text = s,
                                         !.has_chapters = FALSE],
                              s, None, None),
                h, "article_loop")

\* the end of chapter match i of the frame
ChapterEndPos(fr) ==
    IF fr.i + 1 <= Len(fr.chapter_matches)
    THEN fr.chapter_matches[fr.i + 1].start ELSE Len(fr.text) + 1

\* the head of the loop of _parse_with_chapters: the next chapter is begun
\* and its articles are asked for, or the chapters are returned
ChapterLoopStep(fr, h) ==
    IF fr.i \in 1..Len(fr.chapter_matches)
    THEN Bind(fr.chapter_matches[fr.i], LAMBDA match :
         Bind(ChapterNumber(match.group2), LAMBDA chapter_number :
         Bind(Strip(match.group3), LAMBDA chapter_title :
             StepTo(EnterArticles([fr EXCEPT !.chapter_number = chapter_number,
                                             !.chapter_title = chapter_title],
                                  Slice(fr.text, match.end, ChapterEndPos(fr)),
                                  Some(chapter_number), Some(chapter_title)),
                    h, "article_loop"))))
    ELSE StepReturn(fr, h, fr.chapters, <<>>)

\* the end of article match j of the frame
ArticleEndPos(fr) ==
    IF fr.j + 1 <= Len(fr.article_matches)
    THEN fr.article_matches[fr.j + 1].start ELSE Len(fr.a_text) + 1

\* the call _parse_article_parts(article_text) up to its loop
EnterParts(fr, h, match, article_text) ==
    StepTo([fr EXCEPT !.article_number = match.group1,
                      !.article_title = Strip(match.group2),
                      !.article_text = article_text,
                      !.parts = <<>>,
                      !.lines = Split(article_text),
                      !.k = 1,
                      !.current_part_number = None,
                      !.current_part_text = <<>>,
                      !.subparts = NewId(h)],
           Alloc(h, ListObject(<<>>)), "parts_loop")

\* the return of _parse_articles_from_text to _parse_with_chapters: the
\* Chapter is created and appended
AppendChapter(fr, h) ==
    StepTo([fr EXCEPT !.chapters = Append(@, NewId(h)), !.i = @ + 1],
           Alloc(h, ChapterObject(fr.chapter_number, fr.chapter_title,
                                  fr.articles)),
           "chapter_loop")

\* the head of the loop of _parse_articles_from_text: the next article is
\* begun and its parts are asked for, or the articles are returned, to
\* _parse_with_chapters or through _parse_articles_only to the caller of parse
ArticleLoopStep(fr, h) ==
    IF fr.j \in 1..Len(fr.article_matches)
    THEN Bind(fr.article_matches[fr.j], LAMBDA match :
             EnterParts(fr, h, match,
                        Strip(Slice(fr.a_text, match.end, ArticleEndPos(fr)))))
    ELSE IF fr.has_chapters THEN AppendChapter(fr, h)
    ELSE StepReturn(fr, h, <<>>, fr.articles)

\* a flush of _parse_article_parts: the open part, if there is one, is
\* created with the list subparts names and appended to parts
FlushOpenPart(fr, h) ==
    IF fr.current_part_number # None
    THEN [parts |-> Append(fr.parts, NewId(h)),
          heap |-> Alloc(h, PartObject(fr.current_part_number[1],
                                       Join(<<SP>>, fr.current_part_text),
                                       fr.subparts))]
    ELSE [parts |-> fr.parts, heap |-> h]

\* the branch of a numbered-part line: the open part is flushed and a new
\* one is opened with a new list of subparts
OpenPart(fr, part_match, flushed) ==
    StepTo([fr EXCEPT !.parts = flushed.parts,
                      !.current_part_number = Some(IntOf(part_match.group1)),
                      !.current_part_text = <<part_match.group2>>,
                      !.subparts = NewId(flushed.heap),
                      !.k = @ + 1],
           Alloc(flushed.heap, ListObject(<<>>)), "parts_loop")

\* one iteration of the loop of _parse_article_parts on the stripped line
PartsLineStep(fr, h, line) ==
    IF line = <<>> THEN StepTo([fr EXCEPT !.k = @ + 1], h, "parts_loop")
    ELSE Bind(RegexMatch(fr.self.part_regex, line), LAMBDA part_match :
        IF part_match.ok THEN OpenPart(fr, part_match, FlushOpenPart(fr, h))
        ELSE IF fr.current_part_number # None
        THEN IF SubpartMatch(line)
             THEN StepTo([fr EXCEPT !.k = @ + 1],
                         [h EXCEPT ![fr.subparts].items = Append(@, line)],
                         "parts_loop")
             ELSE StepTo([fr EXCEPT !.current_part_text = Append(@, line),
                                    !.k = @ + 1],
                         h, "parts_loop")
        ELSE StepTo([fr EXCEPT !.k = @ + 1], h, "parts_loop"))

\* the last block of _parse_article_parts: the part made of the whole text,
\* with a new empty list of subparts, when there is no part
DefaultPart(flushed, s) ==
    IF flushed.parts = <<>>
    THEN [parts |-> <<NewId(flushed.heap) + 1>>,
          heap |-> Alloc(Alloc(flushed.heap, ListObject(<<>>)),
                         PartObject(1, s, NewId(flushed.heap)))]
    ELSE flushed

\* the return of _parse_article_parts to _parse_articles_from_text: the
\* Article is created and appended
AppendArticle(fr, done) ==
    StepTo([fr EXCEPT !.parts = done.parts,
                      !.articles = Append(@, NewId(done.heap)),
                      !.j = @ + 1],
           Alloc(done.heap,
                 ArticleObject(fr.article_number, fr.article_title, done.parts,
                               fr.article_text, fr.a_chapter_number,
                               fr.a_chapter_title)),
           "article_loop")

\* the head of the loop of _parse_article_parts: the next line is taken, or
\* the parts are finished and returned
PartsLoopStep(fr, h) ==
    IF fr.k \in 1..Len(fr.lines)
    THEN PartsLineStep(fr, h, Strip(fr.lines[fr.k]))
    ELSE AppendArticle(fr, DefaultPart(FlushOpenPart(fr, h), fr.article_text))

\* the frame the local variables of invocation t live in, were they kept on
\* the instance
FrameOfInstance(t) == instanceOf[t]

\* the frame the local variables of invocation t live in: its own
FrameOf(t) == t

\* the value of the ArticlePart object id
PartTree(h, id) ==
    ArticlePart(h[id].number, h[id].text, h[h[id].subparts].items)

\* the value of the Article object id
ArticleTree(h, id) ==
    Article(h[id].number, h[id].title,
            [n \in 1..Len(h[id].parts) |-> PartTree(h, h[id].parts[n])],
            h[id].full_text, h[id].chapter_number, h[id].chapter_title)

\* the value of the Chapter object id
ChapterTree(h, id) ==
    Chapter(h[id].number, h[id].title,
            [n \in 1..Len(h[id].articles) |-> ArticleTree(h, h[id].articles[n])])

\* the value of a returned pair of lists
Tree(h, ret) ==
    [chapters |-> [n \in 1..Len(ret.chapters) |-> ChapterTree(h, ret.chapters[n])],
     articles |-> [n \in 1..Len(ret.articles) |-> ArticleTree(h, ret.articles[n])]]

-----------------------------------------------------------------------------
(* Input texts: up to MaxLines lines joined by newlines, each line one of *)
(* the shapes the patterns distinguish                                     *)

LineShapes ==
    { <<>>,                                           \* a blank line
      <<"Glava", SP, "I", "V", ".", SP, "T">>,         \* Глава IV. T
      <<"Razdel", SP, "2", ".", SP, "U">>,             \* Раздел 2. U
      <<"Glava", SP, "1", ".">>,                       \* Глава 1.
      <<"Statya", SP, "1", ".", SP, "T">>,             \* Статья 1. T
      <<"Statya", SP, "1", ".", "5", ".", SP, "U">>,   \* Статья 1.5. U
      <<"Statya", SP, "2", ".">>,                      \* Статья 2.
      <<"1", ".", SP, "a">>,                           \* 1. a
      <<"2", ".", SP, "b">>,                           \* 2. b
      <<SP, "1", ")", SP, "c">>,                       \*  1) c
      <<"d">> }                                        \* d

\* the text of the lines ls: a line is Split(text)[i]
TextOfLines(ls) == Join(<<NL>>, ls)

-----------------------------------------------------------------------------
(* Specification of the parser as a function of its input *)

\* no dict and no keyword arguments
NoArgs ==
    [doc_type |-> None, number |-> None, date |-> None, title |-> None,
     authority |-> None, status |-> None]

DocIdle ==
    /\ rawText = <<>>
    /\ docPc = "idle"
    /\ document = None
    /\ statistics = None
    /\ lookup = None

ConcIdle ==
    /\ parsers = [p \in Instances |-> NewArticleParser]
    /\ docOf = [t \in Invocations |-> <<>>]
    /\ instanceOf = [t \in Invocations |-> 1]
    /\ pcOf = [t \in Invocations |-> "idle"]
    /\ frames = [t \in Invocations |-> EmptyFrame]
    /\ heap = <<>>
    /\ result = [t \in Invocations |-> None]
    /\ log = <<>>

-----------------------------------------------------------------------------
(* src/scraper/rate_limiter.py: TokenBucketRateLimiter. Time is counted   *)
(* in whole seconds. The default rate of get_rate_limiter is 0.5 tokens a *)
(* second, one token every TicksPerToken seconds; tokens are counted in   *)
(* units of 1/TicksPerToken of a token so that every amount the code      *)
(* computes is a whole number of units: OneToken units make the 1 of the  *)
(* code, and rate is held in units a second.                              *)

TicksPerToken == 2

OneToken == TicksPerToken

Callers == 1..MaxCallers

\* TokenBucketRateLimiter.__init__ at the time now: the bucket starts full
TokenBucketRateLimiter(rate, burst_size, rate_limit_seconds, now) ==
    [ rate |-> rate,
      burst_size |-> burst_size,
      rate_limit_seconds |-> rate_limit_seconds,
      tokens |-> burst_size * OneToken,
      last_update |-> now ]

\* get_rate_limiter as ConsultantScraperV2.__init__ calls it, rate_limit
\* left at its default of 0.5
GetRateLimiter(now) == TokenBucketRateLimiter(1, 3, 2, now)

\* a caller that has not called: kind is the method it calls, now,
\* new_tokens, loaded and wake are its locals, held at 0 while the code
\* does not use them; taken is the history of its self.tokens -= 1, the
\* tokens in the bucket before and after it
IdleCaller(kind) ==
    [ kind |-> kind, pc |-> "idle", now |-> 0, new_tokens |-> 0,
      loaded |-> 0, wake |-> 0, taken |-> None ]

\* _request_with_retry not called: max_retries is the attribute of the
\* scraper, attempt and last_error are the locals and wake is the time the
\* sleep of the back-off ends; the history is in acquires, the returns of
\* acquire(), attempts, the results of the requests, since and slept, the
\* time a back-off began and the seconds each took, and outcome, None or Some of what the call returned or
\* raised and the number of the attempt it is of
IdleRetry ==
    [ pc |-> "idle", max_retries |-> 0, attempt |-> 0, last_error |-> None,
      wake |-> 0, since |-> 0, acquires |-> 0, attempts |-> <<>>,
      slept |-> <<>>,
      outcome |-> None ]

ScraperIdle ==
    /\ limiter = GetRateLimiter(0)
    /\ lockOwner = [_lock |-> 0, _sync_lock |-> 0]
    /\ wallClock = 0
    /\ callers = [c \in Callers |-> IdleCaller("acquire")]
    /\ retry = IdleRetry

ParserIdle ==
    /\ text = <<>>
    /\ pc = "idle"
    /\ chapters = <<>>
    /\ articles = <<>>
    /\ markdown = None

\* 'Статья 1. Т / 1. Текст один. / 2. Текст два. / 1) под.'
SubpartExample ==
    TextOfLines(<< <<"Statya", SP, "1", ".", SP, "T">>,
                   <<"1", ".", SP, "Tekst", SP, "odin", ".">>,
                   <<"2", ".", SP, "Tekst", SP, "dva", ".">>,
                   <<"1", ")", SP, "pod", ".">> >>)

InitParser ==
    /\ \/ \E n \in 0..MaxLines : \E ls \in [1..n -> LineShapes] :
              text = TextOfLines(ls)
       \/ text = SubpartExample
    /\ pc = "called"
    /\ chapters = <<>>
    /\ articles = <<>>
    /\ markdown = None

\* the return of ArticleParser.parse
ParseReturn(r) ==
    /\ chapters' = r.chapters
    /\ articles' = r.articles
    /\ pc' = "returned"

\* ArticleParser.parse(text) runs and returns
Parse ==
    /\ pc = "called"
    /\ ParseReturn(ParseText(text))
    /\ UNCHANGED <<text, markdown>>

\* to_markdown() of every chapter and of every flat article returned
ToMarkdown ==
    /\ pc = "returned"
    /\ markdown = None
    /\ markdown' = Some([chapters |-> [i \in 1..Len(chapters) |->
                                          ChapterToMarkdown(chapters[i])],
                         articles |-> [i \in 1..Len(articles) |->
                                          ArticleToMarkdown(articles[i])]])
    /\ UNCHANGED <<text, pc, chapters, articles>>

RomanIdle ==
    /\ numeral = 0
    /\ romanArg = <<>>
    /\ romanResult = None

MetaIdle ==
    /\ metaText = <<>>
    /\ fallbackTitle = <<>>
    /\ clock = 0
    /\ metaArgs = NoArgs
    /\ metaPc = "idle"
    /\ metadata = None

Init == InitParser /\ RomanIdle /\ MetaIdle /\ DocIdle /\ ConcIdle /\ ScraperIdle

Next ==
    \/ Parse /\ UNCHANGED <<romanVars, metaVars, docVars, concVars, scraperVars>>
    \/ ToMarkdown /\ UNCHANGED <<romanVars, metaVars, docVars, concVars, scraperVars>>

Spec == Init /\ [][Next]_vars

-----------------------------------------------------------------------------
(* Specification of the Roman numerals: every integer up to MaxNumeral is  *)
(* written in the standard subtractive notation, converted on its own and  *)
(* parsed as the numeral of a chapter header                               *)

RECURSIVE Repeat(_, _)
Repeat(c, n) == IF n = 0 THEN <<>> ELSE <<c>> \o Repeat(c, n - 1)

\* one decimal digit d in the symbols for 1, 5 and 10 of its place
StdDigit(d, one, five, ten) ==
    CASE d <= 3 -> Repeat(one, d)
      [] d = 4 -> <<one, five>>
      [] d \in 5..8 -> <<five>> \o Repeat(one, d - 5)
      [] d = 9 -> <<one, ten>>

\* the standard Roman numeral of n
StdRoman(n) ==
    Repeat("M", n \div 1000)
        \o StdDigit((n \div 100) % 10, "C", "D", "M")
        \o StdDigit((n \div 10) % 10, "X", "L", "C")
        \o StdDigit(n % 10, "I", "V", "X")

\* the header line 'Глава <roman>. T'
ChapterHeader(r) == <<"Glava", SP>> \o r \o <<".", SP, "T">>

InitRoman ==
    /\ numeral \in 1..MaxNumeral
    /\ romanArg = StdRoman(numeral)
    /\ romanResult = None
    /\ text = ChapterHeader(romanArg)
    /\ pc = "called"
    /\ chapters = <<>>
    /\ articles = <<>>
    /\ markdown = None
    /\ MetaIdle
    /\ DocIdle
    /\ ConcIdle
    /\ ScraperIdle

\* self._roman_to_int(romanArg) runs and returns
RomanToIntCall ==
    /\ romanResult = None
    /\ romanArg # <<>>
    /\ romanResult' = Some(RomanToInt(romanArg))
    /\ UNCHANGED <<numeral, romanArg>>

NextRoman ==
    \/ RomanToIntCall /\ UNCHANGED <<parserVars, metaVars, docVars, concVars, scraperVars>>
    \/ Parse /\ UNCHANGED <<romanVars, metaVars, docVars, concVars, scraperVars>>

SpecRoman == InitRoman /\ [][NextRoman]_vars

-----------------------------------------------------------------------------
(* Specification of the Roman numerals as _roman_to_int takes them: every  *)
(* string of up to MaxRomanLen Roman symbols, well-formed or not           *)

RomanSymbols == {"I", "V", "X", "L", "C", "D", "M"}

InitScan ==
    /\ numeral = 0
    /\ \E n \in 1..MaxRomanLen : romanArg \in [1..n -> RomanSymbols]
    /\ romanResult = None
    /\ text = ChapterHeader(romanArg)
    /\ pc = "called"
    /\ chapters = <<>>
    /\ articles = <<>>
    /\ markdown = None
    /\ MetaIdle
    /\ DocIdle
    /\ ConcIdle
    /\ ScraperIdle

NextScan ==
    \/ RomanToIntCall /\ UNCHANGED <<parserVars, metaVars, docVars, concVars, scraperVars>>
    \/ Parse /\ UNCHANGED <<romanVars, metaVars, docVars, concVars, scraperVars>>

SpecScan == InitScan /\ [][NextScan]_vars

-----------------------------------------------------------------------------
(* Specification of MetadataExtractor.extract: the prefix is up to         *)
(* MaxSegments lines, each a doc-type phrase, a number/date occurrence in  *)
(* the textual or in the numeric form, a title, an authority or a blank    *)
(* line                                                                    *)

FederalLaw == <<"FEDERALNYI", SP, "ZAKON">>           \* ФЕДЕРАЛЬНЫЙ ЗАКОН
GovDecree ==                                          \* постановление правительства рф
    <<"postanovlenie", SP, "pravitelstva", SP, "rf">>
Edict == <<"Ukaz">>                                   \* Указ

Textual5Apr ==                                        \* от 5 апреля 2013 г. N 44-ФЗ
    <<"ot", SP, "5", SP, "aprelya", SP, "2", "0", "1", "3", SP, "g", ".", SP,
      "N", SP, "4", "4", "-", "FZ">>
Textual31Apr ==                                       \* от 31 апреля 2013 г. N 31-ФЗ
    <<"ot", SP, "3", "1", SP, "aprelya", SP, "2", "0", "1", "3", SP, "g", ".",
      SP, "N", SP, "3", "1", "-", "FZ">>
Textual29Feb ==                                       \* ОТ 29 Февраля 2012 N 7
    <<"OT", SP, "2", "9", SP, "Fevralya", SP, "2", "0", "1", "2", SP, "N", SP,
      "7">>

Numeric5Apr ==                                        \* от 05.04.2013 N 12-ФЗ
    <<"ot", SP, "0", "5", ".", "0", "4", ".", "2", "0", "1", "3", SP, "N", SP,
      "1", "2", "-", "FZ">>
Numeric31Feb ==                                       \* от 31.02.2013 N 13-ФЗ
    <<"ot", SP, "3", "1", ".", "0", "2", ".", "2", "0", "1", "3", SP, "N", SP,
      "1", "3", "-", "FZ">>
Numeric1Jan ==                                        \* от 01.01.2014 N3
    <<"ot", SP, "0", "1", ".", "0", "1", ".", "2", "0", "1", "4", SP, "N", "3">>

QuotedTitle == <<"\"", "O", SP, "sisteme", "\"">>     \* "О системе"
GovAuthority == <<"Pravitelstvo", SP, "RF">>          \* Правительство РФ

MetaSegments ==
    { <<>>, FederalLaw, GovDecree, Edict, Textual5Apr, Textual31Apr,
      Textual29Feb, Numeric5Apr, Numeric31Feb, Numeric1Jan, QuotedTitle,
      GovAuthority }

FallbackTitles == {DefaultFallbackTitle, <<"T">>}

\* the doc_type strings a caller supplies: empty, white space only, in lower
\* case with white space around it, as the validator leaves it
DocTypeArgs ==
    {<<>>, <<SP>>, <<SP, NL, SP>>, <<SP, "prikaz", SP>>, <<"Federalnyi", SP, "zakon">>,
     <<"UKAZ">>}

\* the status strings a caller supplies: the three values in several letter
\* cases, and strings that are none of them
StatusArgs ==
    {<<"deistvuyushchii">>, <<"DEISTVUYUSHCHII">>, <<"Utrativshii", SP, "silu">>,
     <<"UTRATIVSHII", SP, "SILU">>, <<"proekt">>, <<"Proekt">>, <<>>,
     <<SP, "proekt">>, <<"utrativshii">>, <<"otmenen">>}

\* an optional value out of a set
Optional(S) == {None} \cup {Some(v) : v \in S}

InitMeta ==
    /\ \/ /\ \E n \in 0..MaxSegments : \E sg \in [1..n -> MetaSegments] :
                 metaText = Join(<<NL>>, sg)
          /\ fallbackTitle \in FallbackTitles
          /\ metaArgs = NoArgs
          /\ metaPc = "called"
       \/ /\ metaText = <<>>
          /\ fallbackTitle = <<>>
          /\ \E doc_type \in Optional(DocTypeArgs) :
             \E status \in Optional(StatusArgs) :
             \E title \in Optional({<<"T">>}) :
                 metaArgs = [NoArgs EXCEPT !.doc_type = doc_type,
                                           !.status = status, !.title = title]
          /\ metaPc = "from_dict"
       \/ /\ metaText = <<>>
          /\ fallbackTitle = <<>>
          /\ \E doc_type \in DocTypeArgs : \E status \in Optional(StatusArgs) :
                 metaArgs = [doc_type |-> Some(doc_type),
                             number |-> Some(<<"1">>),
                             date |-> Some(Date(2013, 4, 5)),
                             title |-> Some(<<"T">>), authority |-> None,
                             status |-> status]
          /\ metaPc = "constructing"
    /\ clock \in 1..MaxClock
    /\ metadata = None
    /\ ParserIdle
    /\ RomanIdle
    /\ DocIdle
    /\ ConcIdle
    /\ ScraperIdle

\* the end of MetadataExtractor.extract: it returns a DocumentMetadata, or
\* an exception leaves it
ExtractEnd(r) ==
    IF r.raised
    THEN metaPc' = "raised" /\ metadata' = None
    ELSE metaPc' = "returned" /\ metadata' = Some(r.value)

\* MetadataExtractor.extract(metaText, fallbackTitle) runs at time clock
ExtractCall ==
    /\ metaPc = "called"
    /\ ExtractEnd(Extract(metaText, fallbackTitle, clock))
    /\ UNCHANGED <<metaText, fallbackTitle, clock, metaArgs>>

\* MetadataExtractor.extract_from_dict(metaArgs) runs at time clock
ExtractFromDictCall ==
    /\ metaPc = "from_dict"
    /\ metadata' = Some(ExtractFromDict(metaArgs, clock))
    /\ metaPc' = "converted"
    /\ UNCHANGED <<metaText, fallbackTitle, clock, metaArgs>>

\* a caller constructs DocumentMetadata(doc_type=..., number=..., date=...,
\* title=..., status=...); status left out takes the default of the field
DocumentMetadataConstruct ==
    /\ metaPc = "constructing"
    /\ metadata' = Some(DocumentMetadata(metaArgs.doc_type[1], metaArgs.number[1],
                                         metaArgs.date[1], metaArgs.title[1],
                                         metaArgs.authority,
                                         DictGet(metaArgs.status, ACTIVE)))
    /\ metaPc' = "constructed"
    /\ UNCHANGED <<metaText, fallbackTitle, clock, metaArgs>>

NextMeta ==
    \/ ExtractCall /\ UNCHANGED <<parserVars, romanVars, docVars, concVars, scraperVars>>
    \/ ExtractFromDictCall
           /\ UNCHANGED <<parserVars, romanVars, docVars, concVars, scraperVars>>
    \/ DocumentMetadataConstruct
           /\ UNCHANGED <<parserVars, romanVars, docVars, concVars, scraperVars>>

SpecMeta == InitMeta /\ [][NextMeta]_vars

-----------------------------------------------------------------------------
(* Specification of MetadataExtractor.extract on the head of a document:   *)
(* up to MaxHeadLines lines, each a doc-type phrase in its generic or in   *)
(* its qualified form, a title line or a blank line                        *)

Decree == <<"postanovlenie">>                          \* постановление
PresidentEdict == <<"Ukaz", SP, "Prezidenta", SP, "RF">>   \* Указ Президента РФ
EmptyQuotes == <<"\"", "\"">>                          \* ""
SpacedTitle == <<"O", SP, SP, "sisteme">>              \* О  системе

HeadLines ==
    { <<>>, FederalLaw, GovDecree, Decree, Edict, PresidentEdict, QuotedTitle,
      EmptyQuotes, SpacedTitle }

HeadFallbackTitles == {<<"T">>, <<>>}

InitHead ==
    /\ \E n \in 0..MaxHeadLines : \E sg \in [1..n -> HeadLines] :
           metaText = Join(<<NL>>, sg)
    /\ fallbackTitle \in HeadFallbackTitles
    /\ metaArgs = NoArgs
    /\ metaPc = "called"
    /\ clock = 1
    /\ metadata = None
    /\ ParserIdle
    /\ RomanIdle
    /\ DocIdle
    /\ ConcIdle
    /\ ScraperIdle

NextHead ==
    \/ ExtractCall /\ UNCHANGED <<parserVars, romanVars, docVars, concVars, scraperVars>>

SpecHead == InitHead /\ [][NextHead]_vars

-----------------------------------------------------------------------------
(* Specification of the construction of NPADocument values: by             *)
(* NPAParser.parse from the text of a PDF, which is up to two header lines *)
(* and up to MaxDocLines lines of body, and by the constructor called with *)
(* lists of the caller's choice                                            *)

DocHeaders ==
    { <<>>, <<FederalLaw>>, <<FederalLaw, Textual5Apr>>,
      <<FederalLaw, Textual31Apr>> }

\* the metadata, chapters and articles a caller gives to the constructor
SampleMetadata ==
    DocumentMetadata(FederalLaw, <<"4", "4", "-", "FZ">>, Date(2013, 4, 5),
                     <<"O", SP, "sisteme">>, None, ACTIVE)

SampleArticle ==
    Article(<<"1">>, <<"T">>, <<ArticlePart(1, <<"a">>, <<>>)>>, <<"a">>,
            None, None)

\* an article with the number and the title given, of a chapter or of none
Numbered(number, title, chapter_number, chapter_title) ==
    Article(number, title, <<ArticlePart(1, <<"a">>, <<>>)>>, <<"a">>,
            chapter_number, chapter_title)

\* a chapter with articles numbered from..to
ChapterOf(number, title, from, to) ==
    Chapter(number, title,
            [i \in 1..(to - from + 1) |->
                Numbered(<<CHOOSE d \in {"1", "2", "3", "4", "5", "6", "7", "8", "9"} :
                               DigitValue(d) = from + i - 1>>,
                         title, Some(number), Some(title))])

\* chapters of 3 and of 5 articles
ThreeAndFive == <<ChapterOf(1, <<"T">>, 1, 3), ChapterOf(2, <<"U">>, 4, 8)>>

\* chapters in which the number '1' stands twice, next to '01'
RepeatedInChapters ==
    << Chapter(1, <<"T">>, <<Numbered(<<"2">>, <<"T">>, Some(1), Some(<<"T">>))>>),
       Chapter(2, <<"U">>, <<Numbered(<<"0", "1">>, <<"U">>, Some(2), Some(<<"U">>)),
                             Numbered(<<"1">>, <<"V">>, Some(2), Some(<<"U">>))>>),
       Chapter(3, <<"V">>, <<Numbered(<<"1">>, <<"W">>, Some(3), Some(<<"V">>))>>) >>

\* a flat list in which the number '1' stands twice, after '1.0'
RepeatedInFlat ==
    << Numbered(<<"1", ".", "0">>, <<"T">>, None, None),
       Numbered(<<"1">>, <<"U">>, None, None),
       Numbered(<<"1">>, <<"V">>, None, None) >>

\* a text of n characters
Letters(n) == [i \in 1..n |-> "a"]

\* an article with no full_text, whose parts have texts of 5 and of 6
\* characters and the first of them a subpart of 7
PartsOnlyArticle ==
    Article(<<"3">>, <<"T">>,
            << ArticlePart(1, Letters(5), <<Letters(7)>>),
               ArticlePart(2, Letters(6), <<>>) >>,
            <<>>, None, None)

\* an article whose full_text has n characters
OfLength(number, n, chapter_number, chapter_title) ==
    Article(number, <<"T">>, <<ArticlePart(1, Letters(n), <<>>)>>, Letters(n),
            chapter_number, chapter_title)

\* two articles of 7 characters each, in a flat list and in two chapters
SevenAndSeven ==
    <<OfLength(<<"1">>, 7, None, None), OfLength(<<"2">>, 7, None, None)>>

SevenAndSevenInChapters ==
    << Chapter(1, <<"T">>, <<OfLength(<<"1">>, 7, Some(1), Some(<<"T">>))>>),
       Chapter(2, <<"U">>, <<OfLength(<<"2">>, 7, Some(2), Some(<<"U">>))>>) >>

ChapterLists == {<<>>, <<Chapter(1, <<"T">>, <<>>)>>,
                 <<Chapter(1, <<"T">>, <<SampleArticle>>)>>,
                 ThreeAndFive, RepeatedInChapters, SevenAndSevenInChapters}

ArticleLists == {<<>>, <<SampleArticle>>, RepeatedInFlat, <<PartsOnlyArticle>>,
                 SevenAndSeven}

\* the numbers articles are looked up by
ArticleNumbers ==
    {<<"1">>, <<"0", "1">>, <<"1", ".", "0">>, <<"1", ".", "5">>, <<"2">>,
     <<"8">>, <<"9">>}

InitDoc ==
    /\ \/ /\ docPc = "called"
          /\ \E hs \in DocHeaders : \E n \in 0..MaxDocLines :
                 \E ls \in [1..n -> LineShapes] :
                     rawText = TextOfLines(hs \o ls)
       \/ /\ docPc = "parsing"
          /\ \E n \in 0..MaxDocLines : \E ls \in [1..n -> LineShapes] :
                 rawText = TextOfLines(ls)
       \/ /\ docPc = "constructing"
          /\ rawText = <<>>
    /\ document = None
    /\ statistics = None
    /\ lookup = None
    /\ ParserIdle
    /\ RomanIdle
    /\ MetaIdle
    /\ ConcIdle
    /\ ScraperIdle

\* the end of NPAParser.parse: it returns the document, or an exception
\* leaves it
NPAParserParseEnd(r) ==
    IF r.raised
    THEN docPc' = "raised" /\ document' = None
    ELSE docPc' = "returned" /\ document' = Some(r.value)

\* NPAParser.parse(pdf_path) runs: the PDF extractor raises (no such file,
\* not a PDF) or gives rawText, and the document is assembled at time t
NPAParserParse ==
    /\ docPc = "called"
    /\ \E readable \in BOOLEAN : \E t \in 1..MaxClock :
       \E extract_preamble \in BOOLEAN :
           NPAParserParseEnd(IF readable
                             THEN AssembleDocument(rawText, t, extract_preamble)
                             ELSE Raised)
    /\ UNCHANGED <<rawText, statistics, lookup>>

\* a caller constructs NPADocument(metadata=..., chapters=chs, articles=arts)
NPADocumentConstruct ==
    /\ docPc = "constructing"
    /\ \E chs \in ChapterLists : \E arts \in ArticleLists :
           document' = Some(NPADocument(SampleMetadata, <<>>, chs, arts, <<>>, None))
    /\ docPc' = "constructed"
    /\ UNCHANGED <<rawText, statistics, lookup>>

\* chapters, articles = ArticleParser().parse(rawText) and then
\* NPADocument(metadata=..., chapters=chapters, articles=articles,
\* raw_text=rawText)
NPADocumentOfParse ==
    /\ docPc = "parsing"
    /\ document' = Some(NPADocument(SampleMetadata, <<>>,
                                    ParseText(rawText).chapters,
                                    ParseText(rawText).articles, rawText, None))
    /\ docPc' = "built"
    /\ UNCHANGED <<rawText, statistics, lookup>>

\* document.get_statistics() runs and returns
GetStatisticsCall ==
    /\ document # None
    /\ statistics = None
    /\ statistics' = Some(GetStatistics(document[1]))
    /\ UNCHANGED <<rawText, docPc, document, lookup>>

\* document.get_article_by_number(article_number) runs and returns
GetArticleByNumberCall ==
    /\ document # None
    /\ lookup = None
    /\ \E article_number \in ArticleNumbers :
           lookup' = Some([article_number |-> article_number,
                           result |-> GetArticleByNumber(document[1],
                                                         article_number)])
    /\ UNCHANGED <<rawText, docPc, document, statistics>>

NextDoc ==
    \/ NPAParserParse /\ UNCHANGED <<parserVars, romanVars, metaVars, concVars, scraperVars>>
    \/ NPADocumentConstruct
           /\ UNCHANGED <<parserVars, romanVars, metaVars, concVars, scraperVars>>
    \/ NPADocumentOfParse
           /\ UNCHANGED <<parserVars, romanVars, metaVars, concVars, scraperVars>>
    \/ GetStatisticsCall
           /\ UNCHANGED <<parserVars, romanVars, metaVars, concVars, scraperVars>>
    \/ GetArticleByNumberCall
           /\ UNCHANGED <<parserVars, romanVars, metaVars, concVars, scraperVars>>

SpecDoc == InitDoc /\ [][NextDoc]_vars

-----------------------------------------------------------------------------
(* Specification of NPAParser.parse on a text with a preamble: up to       *)
(* MaxPreambleLines lines, none of them a header, then at most one header  *)
(* with a title                                                            *)

\* 'd', a blank line, and 'Статья 5 d', which has no dot after the number
PreambleShapes == { <<"d">>, <<>>, <<"Statya", SP, "5", SP, "d">> }

\* no header, 'Статья 1. T', 'Глава IV. T'
FirstHeaders ==
    { <<>>, << <<"Statya", SP, "1", ".", SP, "T">> >>,
      << <<"Glava", SP, "I", "V", ".", SP, "T">> >> }

InitPreamble ==
    /\ \E n \in 0..MaxPreambleLines : \E ls \in [1..n -> PreambleShapes] :
       \E hd \in FirstHeaders :
           rawText = TextOfLines(ls \o hd)
    /\ docPc = "called"
    /\ document = None
    /\ statistics = None
    /\ lookup = None
    /\ ParserIdle
    /\ RomanIdle
    /\ MetaIdle
    /\ ConcIdle
    /\ ScraperIdle

NextPreamble ==
    \/ NPAParserParse /\ UNCHANGED <<parserVars, romanVars, metaVars, concVars, scraperVars>>

SpecPreamble == InitPreamble /\ [][NextPreamble]_vars

-----------------------------------------------------------------------------
(* The steps of parse as actions of an invocation t *)

\* the step r of invocation t takes effect
Step(t, r) ==
    /\ frames' = [frames EXCEPT ![FrameOf(t)] = r.fr]
    /\ heap' = r.heap
    /\ pcOf' = [pcOf EXCEPT ![t] = r.pc]
    /\ result' = [result EXCEPT ![t] = r.ret]
    /\ UNCHANGED <<parsers, docOf, instanceOf, log>>
    /\ UNCHANGED <<parserVars, romanVars, metaVars, docVars, scraperVars>>

\* parse is entered
StartParse(t) ==
    /\ pcOf[t] = "called"
    /\ Step(t, ParseStartStep(frames[FrameOf(t)], heap,
                              parsers[instanceOf[t]], docOf[t]))

\* the loop of _parse_with_chapters
StepChapters(t) ==
    /\ pcOf[t] = "chapter_loop"
    /\ Step(t, ChapterLoopStep(frames[FrameOf(t)], heap))

\* the loop of _parse_articles_from_text
StepArticles(t) ==
    /\ pcOf[t] = "article_loop"
    /\ Step(t, ArticleLoopStep(frames[FrameOf(t)], heap))

\* the loop of _parse_article_parts
StepParts(t) ==
    /\ pcOf[t] = "parts_loop"
    /\ Step(t, PartsLoopStep(frames[FrameOf(t)], heap))

-----------------------------------------------------------------------------
(* Specification of two concurrent invocations of parse, on one           *)
(* ArticleParser or on two: the longer text is of up to MaxConcLines      *)
(* lines, the other of at least one line less                             *)

ConcShapes ==
    { <<"Glava", SP, "I", "V", ".", SP, "T">>,         \* Глава IV. T
      <<"Statya", SP, "1", ".", SP, "T">>,             \* Статья 1. T
      <<"1", ".", SP, "a">>,                           \* 1. a
      <<SP, "1", ")", SP, "c">> }                      \*  1) c

InitConc ==
    /\ parsers = [p \in Instances |-> NewArticleParser]
    /\ \E n1 \in 0..MaxConcLines : \E n2 \in 0..MaxConcLines - 1 :
       \E ls1 \in [1..n1 -> ConcShapes] : \E ls2 \in [1..n2 -> ConcShapes] :
           docOf = [t \in Invocations |->
                       IF t = 1 THEN TextOfLines(ls1) ELSE TextOfLines(ls2)]
    /\ \E p \in Instances :
           instanceOf = [t \in Invocations |-> IF t = 1 THEN 1 ELSE p]
    /\ pcOf = [t \in Invocations |-> "called"]
    /\ frames = [t \in Invocations |-> EmptyFrame]
    /\ heap = <<>>
    /\ result = [t \in Invocations |-> None]
    /\ log = <<>>
    /\ ParserIdle
    /\ RomanIdle
    /\ MetaIdle
    /\ DocIdle
    /\ ScraperIdle

NextConc ==
    \/ \E t \in Invocations : StartParse(t)
    \/ \E t \in Invocations : StepChapters(t)
    \/ \E t \in Invocations : StepArticles(t)
    \/ \E t \in Invocations : StepParts(t)

SpecConc == InitConc /\ [][NextConc]_vars

-----------------------------------------------------------------------------
(* Specification of consecutive invocations of parse: up to MaxCalls      *)
(* calls, one after the other, each on either ArticleParser and on a text *)
(* of up to MaxSeqLines lines                                              *)

SeqShapes ==
    { <<"Glava", SP, "I", "V", ".", SP, "T">>,         \* Глава IV. T
      <<"Statya", SP, "1", ".", SP, "T">>,             \* Статья 1. T
      <<"1", ".", SP, "a">> }                          \* 1. a

InitSeq ==
    /\ ConcIdle
    /\ ScraperIdle
    /\ ParserIdle
    /\ RomanIdle
    /\ MetaIdle
    /\ DocIdle

\* the instance, the text and the tree of the invocation t, which has
\* returned
Finished(t) ==
    [instance |-> instanceOf[t], text |-> docOf[t],
     tree |-> Tree(heap, result[t][1])]

\* the invocations of caller t so far that have returned
History(t) ==
    IF pcOf[t] = "returned" THEN Append(log, Finished(t)) ELSE log

\* parse(s) is called on instance p, by the caller whose call before, if
\* any, has returned
Call(t) ==
    /\ pcOf[t] \in {"idle", "returned"}
    /\ Len(History(t)) < MaxCalls
    /\ log' = History(t)
    /\ \E p \in Instances : \E n \in 0..MaxSeqLines :
       \E ls \in [1..n -> SeqShapes] :
           /\ instanceOf' = [instanceOf EXCEPT ![t] = p]
           /\ docOf' = [docOf EXCEPT ![t] = TextOfLines(ls)]
    /\ pcOf' = [pcOf EXCEPT ![t] = "called"]
    /\ result' = [result EXCEPT ![t] = None]
    /\ UNCHANGED <<parsers, frames, heap>>
    /\ UNCHANGED <<parserVars, romanVars, metaVars, docVars, scraperVars>>

NextSeq ==
    \/ Call(1)
    \/ StartParse(1)
    \/ StepChapters(1)
    \/ StepArticles(1)
    \/ StepParts(1)

SpecSeq == InitSeq /\ [][NextSeq]_vars

-----------------------------------------------------------------------------
(* Claims about ArticleParser.parse *)

\* A chapter header as the text itself shows it, without the matcher: at the
\* start of a line the word, a run of \s, a numeral of [IVXLCDM] only or of
\* digits only, '.', a run of \s and a title of one symbol or more up to the
\* end of a line.
HasChapterHeader(s) ==
    \E i \in 1..Len(s) :
        /\ LineStart(s, i) /\ IsChapterWord(s[i])
        /\ \E b \in i + 2..Len(s) :
            /\ \A k \in i + 1..b - 1 : IsSpace(s[k])
            /\ \E c \in b + 1..Len(s) :
                /\ s[c] = "."
                /\ \/ \A k \in b..c - 1 : IsRoman(s[k])
                   \/ \A k \in b..c - 1 : IsDigit(s[k])
                /\ \E t \in c + 1..Len(s) :
                    /\ \A k \in c + 1..t - 1 : IsSpace(s[k])
                    /\ s[t] # NL

AllArticles(chs, arts) ==
    {arts[i] : i \in 1..Len(arts)}
        \cup UNION {{chs[c].articles[i] : i \in 1..Len(chs[c].articles)} :
                    c \in 1..Len(chs)}

\* C1: parse never returns both lists non-empty: a text with a chapter
\* header gives a non-empty chapter list and an empty flat list, a text
\* with none gives an empty chapter list and all its articles in the flat list.
C1_MutuallyExclusive ==
    pc = "returned" =>
        /\ ~(chapters # <<>> /\ articles # <<>>)
        /\ HasChapterHeader(text) => (chapters # <<>> /\ articles = <<>>)
        /\ ~HasChapterHeader(text) =>
               (chapters = <<>> /\ articles = ParseArticlesOnly(text))

\* a text with an article header before its first chapter header and one
\* after it has been parsed
C1_Witness ==
    /\ pc = "returned"
    /\ HasChapterHeader(text)
    /\ ArticleMatchAt(text, 1).ok
    /\ \E c \in 1..Len(chapters) : chapters[c].articles # <<>>

\* C2: every article returned, flat or in a chapter, has at least one part
C2_EveryArticleHasAPart ==
    pc = "returned" =>
        \A a \in AllArticles(chapters, articles) : Len(a.parts) >= 1

\* an article with an empty body and an article whose body has no
\* numbered-part line have been returned
C2_Witness ==
    /\ pc = "returned"
    /\ \E a \in AllArticles(chapters, articles) :
           a.full_text = <<>> /\ Len(a.parts) = 1
    /\ \E a \in AllArticles(chapters, articles) :
           /\ a.full_text # <<>>
           /\ \A l \in 1..Len(Split(a.full_text)) :
                  ~PartMatch(Strip(Split(a.full_text)[l])).ok

-----------------------------------------------------------------------------
(* Claims about the parts of an article.  The lines of an article are read *)
(* off its full_text without the matcher.                                   *)

\* the lines of an article text that are not blank, stripped
BodyLines(s) ==
    SelectSeq([i \in 1..Len(Split(s)) |-> Strip(Split(s)[i])],
              LAMBDA line : line # <<>>)

\* a stripped line '<int><mark>' followed by white space and text
MarkedLine(line, mark) ==
    \E c \in 2..Len(line) :
        /\ \A k \in 1..c - 1 : IsDigit(line[k])
        /\ line[c] = mark
        /\ c + 1 <= Len(line) /\ IsSpace(line[c + 1])

IsPartLine(line) == MarkedLine(line, ".")
IsSubpartLine(line) == MarkedLine(line, ")")

\* where the mark of a marked line stands
MarkAt(line) == CHOOSE c \in 2..Len(line) : \A k \in 1..c - 1 : IsDigit(line[k])
                                            /\ ~IsDigit(line[c])

\* the integer a numbered-part line opens with
PartLineNumber(line) == IntOf(SubSeq(line, 1, MarkAt(line) - 1))

\* the text of a numbered-part line after its mark and the white space
PartLineText(line) == LStrip(SubSeq(line, MarkAt(line) + 1, Len(line)))

\* the positions of the numbered-part lines among lines
PartLineAt(lines) == {i \in 1..Len(lines) : IsPartLine(lines[i])}

\* the k-th element of a set of positions
Nth(S, k) == CHOOSE i \in S : Cardinality({j \in S : j < i}) = k - 1

\* the lines that follow the k-th numbered-part line up to the next one
LinesOfPart(lines, k) ==
    Bind(PartLineAt(lines), LAMBDA P :
        SubSeq(lines, Nth(P, k) + 1,
               IF k < Cardinality(P) THEN Nth(P, k + 1) - 1 ELSE Len(lines)))

\* the result the claim gives for SubpartExample
SubpartExampleArticle ==
    Article(<<"1">>, <<"T">>,
            << ArticlePart(1, <<"Tekst", SP, "odin", ".">>, <<>>),
               ArticlePart(2, <<"Tekst", SP, "dva", ".">>,
                           << <<"1", ")", SP, "pod", ".">> >>) >>,
            TextOfLines(<< <<"1", ".", SP, "Tekst", SP, "odin", ".">>,
                           <<"2", ".", SP, "Tekst", SP, "dva", ".">>,
                           <<"1", ")", SP, "pod", ".">> >>),
            None, None)

\* part k of the article a holds as subparts exactly the '<int>) ...' lines
\* that follow its opening line up to the next opening line, stripped and in
\* order, and none of them is in its text
SubpartsOfPartK(a, k) ==
    Bind(LinesOfPart(BodyLines(a.full_text), k), LAMBDA ls :
        /\ a.parts[k].subparts = SelectSeq(ls, IsSubpartLine)
        /\ a.parts[k].text =
               Join(<<SP>>,
                    <<PartLineText(BodyLines(a.full_text)
                                       [Nth(PartLineAt(BodyLines(a.full_text)), k)])>>
                        \o SelectSeq(ls, LAMBDA line : ~IsSubpartLine(line))))

\* C11: a line '<int>) ...' met while a part is open goes, stripped, to the
\* subparts of that part, the one opened last, and not into any text; a new
\* part starts with no subparts; SubpartExample gives one article '1' with
\* part 1 'Текст один.' without subparts and part 2 'Текст два.' with
\* subparts ['1) под.'].
C11_SubpartsOfOpenPart ==
    pc = "returned" =>
        /\ \A a \in AllArticles(chapters, articles) :
               PartLineAt(BodyLines(a.full_text)) # {} =>
                   /\ Len(a.parts) = Cardinality(PartLineAt(BodyLines(a.full_text)))
                   /\ \A k \in 1..Len(a.parts) : SubpartsOfPartK(a, k)
        /\ text = SubpartExample =>
               chapters = <<>> /\ articles = <<SubpartExampleArticle>>

\* SubpartExample has been parsed: the subpart line stands in the second
\* part and not in the first
C11_Witness ==
    /\ pc = "returned"
    /\ text = SubpartExample
    /\ Len(articles) = 1 /\ Len(articles[1].parts) = 2
    /\ articles[1].parts[1].subparts = <<>>
    /\ articles[1].parts[2].subparts = << <<"1", ")", SP, "pod", ".">> >>

\* the part that the k-th numbered-part line of lines opens: its number is
\* the integer of the line, its text the rest of the line and the lines
\* after it up to the next numbered-part line that are no '<int>) ...' lines
PartOfLine(lines, k) ==
    [number |-> PartLineNumber(lines[Nth(PartLineAt(lines), k)]),
     text |-> Join(<<SP>>,
                   <<PartLineText(lines[Nth(PartLineAt(lines), k)])>>
                       \o SelectSeq(LinesOfPart(lines, k),
                                    LAMBDA line : ~IsSubpartLine(line)))]

\* C22: when the text of an article has a numbered-part line '<int>. <text>',
\* its parts are those of the numbered-part lines, one for one and in text
\* order: each has the integer of its line as number, as written, and as
\* text the rest of the line followed, joined by single spaces and in order,
\* by the later non-blank lines up to the next numbered-part line that are
\* no subpart lines; the part open at the end is flushed too.
C22_PartPerNumberedLine ==
    pc = "returned" =>
        \A a \in AllArticles(chapters, articles) :
            PartLineAt(BodyLines(a.full_text)) # {} =>
                /\ Len(a.parts) = Cardinality(PartLineAt(BodyLines(a.full_text)))
                /\ \A k \in 1..Len(a.parts) :
                       /\ a.parts[k].number = PartOfLine(BodyLines(a.full_text), k).number
                       /\ a.parts[k].text = PartOfLine(BodyLines(a.full_text), k).text

\* an article with the lines '2. b', '1. a' and 'd' has been returned: part
\* 2 comes before part 1 and the last part has taken the line 'd'
C22_Witness ==
    /\ pc = "returned"
    /\ \E a \in AllArticles(chapters, articles) :
           /\ BodyLines(a.full_text) = << <<"2", ".", SP, "b">>,
                                          <<"1", ".", SP, "a">>, <<"d">> >>
           /\ Len(a.parts) = 2
           /\ a.parts[1] = ArticlePart(2, <<"b">>, <<>>)
           /\ a.parts[2] = ArticlePart(1, <<"a", SP, "d">>, <<>>)

\* the lines from the first numbered-part line on
FromFirstPartLine(lines) ==
    SubSeq(lines, CHOOSE f \in PartLineAt(lines) :
                      \A g \in PartLineAt(lines) : f <= g,
           Len(lines))

\* the parts that lines give when every line goes into the part opened by
\* the numbered-part line last before it: into its subparts when it is a
\* '<int>) ...' line, into its text otherwise
PartsHolding(lines) ==
    [k \in 1..Cardinality(PartLineAt(lines)) |->
        ArticlePart(PartOfLine(lines, k).number, PartOfLine(lines, k).text,
                    SelectSeq(LinesOfPart(lines, k), IsSubpartLine))]

\* C28: when the text of an article has a numbered-part line, the non-blank
\* lines before the first numbered-part line, ordinary or '<int>) ...', are
\* in no part's text and in no part's subparts: they are lines of full_text
\* only, and the parts are those of the lines from the first numbered-part
\* line on, each of which is in exactly one part, in its text or in its
\* subparts.
C28_LeadingLinesInNoPart ==
    pc = "returned" =>
        \A a \in AllArticles(chapters, articles) :
            PartLineAt(BodyLines(a.full_text)) # {} =>
                a.parts = PartsHolding(FromFirstPartLine(BodyLines(a.full_text)))

\* an article with the lines '1) c', '1. a', '1) c' has been returned: the
\* first of them is in no part, the last is a subpart of part 1
C28_Witness ==
    /\ pc = "returned"
    /\ \E a \in AllArticles(chapters, articles) :
           /\ BodyLines(a.full_text) = << <<"1", ")", SP, "c">>,
                                          <<"1", ".", SP, "a">>,
                                          <<"1", ")", SP, "c">> >>
           /\ a.parts = <<ArticlePart(1, <<"a">>, << <<"1", ")", SP, "c">> >>)>>

\* two article headers with titles, the second directly after the first
AdjacentHeaders ==
    TextOfLines(<< <<"Statya", SP, "1", ".", SP, "T">>,
                   <<"Statya", SP, "1", ".", "5", ".", SP, "U">> >>)

\* C12: an article none of whose lines is a numbered-part line '<int>. <text>'
\* has exactly one part, with number 1, no subparts and the whole text of the
\* article, the same string as its full_text; an article header directly
\* followed by the next header gives an article with empty full_text and the
\* single part 1 with empty text.
C12_SyntheticSinglePart ==
    pc = "returned" =>
        /\ \A a \in AllArticles(chapters, articles) :
               PartLineAt(BodyLines(a.full_text)) = {} =>
                   a.parts = <<ArticlePart(1, a.full_text, <<>>)>>
        /\ text = AdjacentHeaders =>
               /\ Len(articles) = 2
               /\ articles[1].full_text = <<>>
               /\ articles[1].parts = <<ArticlePart(1, <<>>, <<>>)>>

\* an article with no body and an article whose body is several lines, none
\* of them a numbered-part line, have been returned
C12_Witness ==
    /\ pc = "returned"
    /\ \E a \in AllArticles(chapters, articles) :
           a.full_text = <<>> /\ a.parts = <<ArticlePart(1, <<>>, <<>>)>>
    /\ \E a \in AllArticles(chapters, articles) :
           /\ \E i \in 1..Len(a.full_text) : a.full_text[i] = NL
           /\ PartLineAt(BodyLines(a.full_text)) = {}
           /\ a.parts = <<ArticlePart(1, a.full_text, <<>>)>>

-----------------------------------------------------------------------------
(* Claims about the Roman numerals *)

IV == <<"I", "V">>
IX == <<"I", "X">>
XIV == <<"X", "I", "V">>
MCMXCIX == <<"M", "C", "M", "X", "C", "I", "X">>

\* C10: _roman_to_int returns the integer a standard numeral was written
\* from, IV, IX, XIV and MCMXCIX give 4, 9, 14 and 1999, and the header
\* 'Глава <numeral>. T' gives one chapter with that integer as its number.
C10_RomanStandardValue ==
    /\ romanResult # None => romanResult = Some(numeral)
    /\ (romanResult # None /\ romanArg = IV) => romanResult = Some(4)
    /\ (romanResult # None /\ romanArg = IX) => romanResult = Some(9)
    /\ (romanResult # None /\ romanArg = XIV) => romanResult = Some(14)
    /\ (romanResult # None /\ romanArg = MCMXCIX) => romanResult = Some(1999)
    /\ pc = "returned" =>
           /\ Len(chapters) = 1
           /\ chapters[1].number = numeral
           /\ text = ChapterHeader(IV) => chapters[1].number = 4

\* MCMXCIX has been converted and parsed as a chapter numeral
C10_Witness ==
    /\ romanArg = MCMXCIX
    /\ romanResult = Some(1999)
    /\ pc = "returned"
    /\ chapters[1].number = 1999

-----------------------------------------------------------------------------
(* Claims about MetadataExtractor.extract.  What a line of the prefix      *)
(* means is written down here by hand, apart from the matchers: the number *)
(* and the date a number/date occurrence states, whether that date is a    *)
(* real calendar date, and the upper-case form of a doc-type phrase.       *)

TextualForms ==
    { [form |-> Textual5Apr, number |-> <<"4", "4", "-", "FZ">>, real |-> TRUE,
       date |-> [year |-> 2013, month |-> 4, day |-> 5, now |-> 0]],
      [form |-> Textual31Apr, number |-> <<"3", "1", "-", "FZ">>, real |-> FALSE,
       date |-> [year |-> 2013, month |-> 4, day |-> 31, now |-> 0]],
      [form |-> Textual29Feb, number |-> <<"7">>, real |-> TRUE,
       date |-> [year |-> 2012, month |-> 2, day |-> 29, now |-> 0]] }

NumericForms ==
    { [form |-> Numeric5Apr, number |-> <<"1", "2", "-", "FZ">>, real |-> TRUE,
       date |-> [year |-> 2013, month |-> 4, day |-> 5, now |-> 0]],
      [form |-> Numeric31Feb, number |-> <<"1", "3", "-", "FZ">>, real |-> FALSE,
       date |-> [year |-> 2013, month |-> 2, day |-> 31, now |-> 0]],
      [form |-> Numeric1Jan, number |-> <<"3">>, real |-> TRUE,
       date |-> [year |-> 2014, month |-> 1, day |-> 1, now |-> 0]] }

DocTypeForms ==
    { [form |-> FederalLaw, upper |-> <<"FEDERALNYI", SP, "ZAKON">>],
      [form |-> GovDecree,
       upper |-> <<"POSTANOVLENIE", SP, "PRAVITELSTVA", SP, "RF">>],
      [form |-> Edict, upper |-> <<"UKAZ">>] }

\* the symbols of w stand in s from position i on
StandsAt(s, i, w) ==
    i + Len(w) - 1 <= Len(s) /\ SubSeq(s, i, i + Len(w) - 1) = w

\* the positions of s where one of the forms stands
Occurrences(s, forms) ==
    {i \in 1..Len(s) : \E o \in forms : StandsAt(s, i, o.form)}

Occurs(s, forms) == Occurrences(s, forms) # {}

\* the position of the leftmost occurrence of one of the forms
FirstPosition(s, forms) ==
    CHOOSE i \in Occurrences(s, forms) :
        \A j \in Occurrences(s, forms) : i <= j

\* the leftmost occurrence of one of the forms in s, when one occurs
First(s, forms) ==
    CHOOSE o \in forms : StandsAt(s, FirstPosition(s, forms), o.form)

\* extract has ended, by a return or by an exception
ExtractEnded == metaPc \in {"returned", "raised"}

\* neither number/date pattern yields a usable match
NoUsableMatch(s) ==
    /\ ~Occurs(s, TextualForms)
    /\ Occurs(s, NumericForms) => ~First(s, NumericForms).real

\* C3: extract is total: whatever the prefix and the fallback title, it
\* ends by returning a metadata value and never by raising, also when the
\* prefix has a number/date occurrence that is not a real calendar date.
C3_ExtractIsTotal ==
    ExtractEnded => (metaPc = "returned" /\ metadata # None)

\* the prefix 'от 31 апреля 2013 г. N 31-ФЗ' has been given to extract
C3_Witness ==
    /\ ExtractEnded
    /\ metaText = Textual31Apr

\* the example of C7: ФЕДЕРАЛЬНЫЙ ЗАКОН on one line and
\* от 5 апреля 2013 г. N 44-ФЗ on the next
ExamplePrefix == FederalLaw \o <<NL>> \o Textual5Apr

\* C7: when the prefix has a doc-type phrase and its leftmost textual
\* number/date occurrence states a real calendar date, extract returns the
\* upper-cased phrase as doc_type, the number token as written as number and
\* (year, index of the month name, day) as date; for the example prefix
\* this is (ФЕДЕРАЛЬНЫЙ ЗАКОН, 44-ФЗ, 2013-04-05).
C7_TextualOccurrenceFields ==
    /\ ( /\ ExtractEnded
         /\ Occurs(metaText, DocTypeForms)
         /\ Occurs(metaText, TextualForms)
         /\ First(metaText, TextualForms).real )
       => /\ metaPc = "returned"
          /\ metadata[1].doc_type = First(metaText, DocTypeForms).upper
          /\ metadata[1].number = First(metaText, TextualForms).number
          /\ metadata[1].date = First(metaText, TextualForms).date
    /\ (ExtractEnded /\ metaText = ExamplePrefix)
       => /\ metaPc = "returned"
          /\ metadata[1].doc_type = <<"FEDERALNYI", SP, "ZAKON">>
          /\ metadata[1].number = <<"4", "4", "-", "FZ">>
          /\ metadata[1].date = Date(2013, 4, 5)

\* extract has returned for a prefix with a lower-case doc-type phrase and
\* 'ОТ 29 Февраля 2012 N 7' as its leftmost textual occurrence
C7_Witness ==
    /\ metaPc = "returned"
    /\ Occurs(metaText, {d \in DocTypeForms : d.form = GovDecree})
    /\ Occurs(metaText, TextualForms)
    /\ First(metaText, TextualForms).form = Textual29Feb
    /\ metadata[1].number = <<"7">>
    /\ metadata[1].date = Date(2012, 2, 29)

\* C8: the textual pattern is tried first and the first pattern to match
\* wins: when extract returns for a prefix with a textual occurrence, number
\* and date are those of the leftmost textual occurrence, wherever the
\* numeric occurrences stand; number and date come from a numeric
\* occurrence only when no textual occurrence is in the prefix.
C8_TextualPatternFirst ==
    metaPc = "returned" =>
        /\ Occurs(metaText, TextualForms) =>
            /\ metadata[1].number = First(metaText, TextualForms).number
            /\ metadata[1].date = First(metaText, TextualForms).date
        /\ ( /\ ~Occurs(metaText, TextualForms)
             /\ Occurs(metaText, NumericForms)
             /\ First(metaText, NumericForms).real ) =>
            /\ metadata[1].number = First(metaText, NumericForms).number
            /\ metadata[1].date = First(metaText, NumericForms).date
        /\ metadata[1].number \in {q.number : q \in NumericForms} =>
            ~Occurs(metaText, TextualForms)

\* extract has returned for a prefix where a numeric occurrence with a real
\* date stands before the textual occurrence
C8_Witness ==
    /\ metaPc = "returned"
    /\ Occurs(metaText, TextualForms)
    /\ Occurs(metaText, NumericForms)
    /\ First(metaText, NumericForms).real
    /\ FirstPosition(metaText, NumericForms)
           < FirstPosition(metaText, TextualForms)
    /\ metadata[1].number = First(metaText, TextualForms).number

\* C9: when neither pattern yields a usable match (no occurrence, or a
\* numeric occurrence whose date is not a real calendar date), extract
\* returns number 'N/A' and the time of the call as date; in what extract
\* returns, number is 'N/A' exactly when the date is the time of the call
\* and exactly when there was no usable match.
C9_DefaultedTogether ==
    /\ (ExtractEnded /\ NoUsableMatch(metaText)) =>
           /\ metaPc = "returned"
           /\ metadata[1].number = NA
           /\ metadata[1].date = Now(clock)
    /\ metaPc = "returned" =>
           /\ metadata[1].number = NA <=> metadata[1].date = Now(clock)
           /\ metadata[1].number = NA <=> NoUsableMatch(metaText)

\* extract has returned the defaults for a prefix whose leftmost numeric
\* occurrence is 'от 31.02.2013 N 13-ФЗ', with a real numeric date after it
C9_Witness ==
    /\ metaPc = "returned"
    /\ NoUsableMatch(metaText)
    /\ Occurs(metaText, NumericForms)
    /\ Cardinality(Occurrences(metaText, NumericForms)) >= 2
    /\ \E i \in Occurrences(metaText, NumericForms) :
           \E q \in NumericForms : q.real /\ StandsAt(metaText, i, q.form)
    /\ metadata[1].number = NA
    /\ metadata[1].date = Now(clock)

\* the status the claim gives for each status string supplied: a value of
\* the closed set in any letter case is that value, anything else is
\* 'действующий'
ExpectedStatus ==
    { [given |-> <<"deistvuyushchii">>, status |-> ACTIVE],
      [given |-> <<"DEISTVUYUSHCHII">>, status |-> ACTIVE],
      [given |-> <<"Utrativshii", SP, "silu">>, status |-> REPEALED],
      [given |-> <<"UTRATIVSHII", SP, "SILU">>, status |-> REPEALED],
      [given |-> <<"proekt">>, status |-> DRAFT],
      [given |-> <<"Proekt">>, status |-> DRAFT],
      [given |-> <<>>, status |-> ACTIVE],
      [given |-> <<SP, "proekt">>, status |-> ACTIVE],
      [given |-> <<"utrativshii">>, status |-> ACTIVE],
      [given |-> <<"otmenen">>, status |-> ACTIVE] }

\* C15: every DocumentMetadata created by extract, by extract_from_dict or
\* by the constructor has its status in {'действующий', 'утративший силу',
\* 'проект'}: a value of the set in any letter case is stored in lower case,
\* any other value becomes 'действующий', and normalising the stored status
\* again leaves it unchanged.
C15_StatusInClosedSet ==
    metadata # None =>
        /\ metadata[1].status \in {ACTIVE, REPEALED, DRAFT}
        /\ ValidateStatus(metadata[1].status) = metadata[1].status
        /\ metaArgs.status = None => metadata[1].status = ACTIVE
        /\ \A e \in ExpectedStatus :
               metaArgs.status = Some(e.given) => metadata[1].status = e.status

\* the constructor has been given 'УТРАТИВШИЙ СИЛУ' and has stored
\* 'утративший силу'
C15_Witness ==
    /\ metaPc = "constructed"
    /\ metaArgs.status = Some(<<"UTRATIVSHII", SP, "SILU">>)
    /\ metadata[1].status = REPEALED

\* a doc_type string that is empty or white space only
IsBlank(v) == \A i \in 1..Len(v) : IsSpace(v[i])

\* C16: every DocumentMetadata created by extract, by extract_from_dict or
\* by the constructor has a doc_type that is not empty and is its own
\* trimmed upper-case form; it is 'ДОКУМЕНТ' when the prefix has no act-type
\* phrase and when the doc_type supplied is empty or white space only.
C16_DocTypeNeverEmpty ==
    metadata # None =>
        /\ metadata[1].doc_type # <<>>
        /\ metadata[1].doc_type = Strip(Upper(metadata[1].doc_type))
        /\ (metaPc = "returned" /\ ~Occurs(metaText, DocTypeForms)) =>
               metadata[1].doc_type = DOKUMENT
        /\ (metaPc = "converted" /\ metaArgs.doc_type = None) =>
               metadata[1].doc_type = DOKUMENT
        /\ (metaArgs.doc_type # None /\ IsBlank(metaArgs.doc_type[1])) =>
               metadata[1].doc_type = DOKUMENT

\* the constructor has been given a doc_type of white space only
C16_Witness ==
    /\ metaPc = "constructed"
    /\ metaArgs.doc_type = Some(<<SP, NL, SP>>)
    /\ metadata # None

-----------------------------------------------------------------------------
(* Claims about the doc_type and the title of the head of a document *)

\* the forms a doc-type phrase has in the lines of the head, each with its
\* upper-case form; 'postanovlenie' and 'Ukaz' also stand where their
\* qualified forms stand
HeadDocTypeForms ==
    DocTypeForms
        \cup { [form |-> Decree, upper |-> <<"POSTANOVLENIE">>],
               [form |-> PresidentEdict,
                upper |-> <<"UKAZ", SP, "PREZIDENTA", SP, "RF">>] }

\* of the forms that stand at the leftmost occurrence, the longest
LongestFirst(s, forms) ==
    CHOOSE o \in forms :
        /\ StandsAt(s, FirstPosition(s, forms), o.form)
        /\ \A q \in forms :
               StandsAt(s, FirstPosition(s, forms), q.form)
                   => Len(q.form) <= Len(o.form)

\* C23: doc_type is the upper-cased phrase of the leftmost occurrence of an
\* act-type phrase in the prefix, in any letter case; where the qualified
\* phrase 'ПОСТАНОВЛЕНИЕ ПРАВИТЕЛЬСТВА РФ' or 'УКАЗ ПРЕЗИДЕНТА РФ' stands at
\* that occurrence, doc_type is the qualified phrase and not 'ПОСТАНОВЛЕНИЕ'
\* or 'УКАЗ'.
C23_QualifiedDocTypeFirst ==
    (metaPc = "returned" /\ Occurs(metaText, HeadDocTypeForms)) =>
        metadata[1].doc_type = LongestFirst(metaText, HeadDocTypeForms).upper

\* extract has returned for a head that begins with 'Указ Президента РФ' and
\* goes on with 'постановление правительства рф'
C23_Witness ==
    /\ metaPc = "returned"
    /\ StandsAt(metaText, 1, PresidentEdict)
    /\ Occurs(metaText, {d \in HeadDocTypeForms : d.form = GovDecree})
    /\ metadata[1].doc_type = <<"UKAZ", SP, "PREZIDENTA", SP, "RF">>

\* the blank lines from position p on that text follows: the positions of
\* two newlines in a row that do not end the text
BlankLinesFrom(s, p) ==
    {j \in p..Len(s) - 2 : s[j] = NL /\ s[j + 1] = NL}

\* a block that begins at position a ends before position k: at the end of
\* the text, at a newline that ends the text or at the next blank line
BlockEnds(s, a) ==
    {k \in a + 1..Len(s) + 1 :
        \/ k = Len(s) + 1
        \/ k = Len(s) /\ s[k] = NL
        \/ k < Len(s) /\ s[k] = NL /\ s[k + 1] = NL}

\* the least position of a set of positions
Least(S) == CHOOSE i \in S : \A j \in S : i <= j

\* the block after the first blank line that follows the first doc-type
\* occurrence of s
TitleBlock(s) ==
    Bind(Least(BlankLinesFrom(s, FirstPosition(s, HeadDocTypeForms))) + 2,
         LAMBDA a : SubSeq(s, a, Least(BlockEnds(s, a)) - 1))

\* s has a block for the title
HasTitleBlock(s) ==
    /\ Occurs(s, HeadDocTypeForms)
    /\ BlankLinesFrom(s, FirstPosition(s, HeadDocTypeForms)) # {}

\* where the words of b begin: the symbols that are no white space and
\* stand first or after white space
WordStarts(b) ==
    {i \in 1..Len(b) : ~IsSpace(b[i]) /\ (i = 1 \/ IsSpace(b[i - 1]))}

\* the word of b that begins at position i
WordFrom(b, i) ==
    SubSeq(b, i, CHOOSE e \in i..Len(b) :
                     /\ \A k \in i..e : ~IsSpace(b[k])
                     /\ e = Len(b) \/ IsSpace(b[e + 1]))

\* the words of b with one space between them
SingleSpaced(b) ==
    Join(<<SP>>, [k \in 1..Cardinality(WordStarts(b)) |->
                     WordFrom(b, Nth(WordStarts(b), k))])

\* w without the double quotes it begins and ends with
Unquoted(w) ==
    Bind({i \in 1..Len(w) : w[i] # "\""}, LAMBDA Q :
        IF Q = {} THEN <<>>
        ELSE SubSeq(w, Least(Q), CHOOSE i \in Q : \A j \in Q : j <= i))

-----------------------------------------------------------------------------
(* Claims about NPADocument *)

\* C4: the structural payload is a tagged choice: no NPADocument that has
\* been constructed, by the constructor or by NPAParser.parse, has both a
\* non-empty chapters list and a non-empty top-level articles list.
C4_TaggedChoice ==
    document # None =>
        ~(document[1].chapters # <<>> /\ document[1].articles # <<>>)

\* NPAParser.parse has returned a document with chapters and one with
\* top-level articles is reachable too: here, one with a chapter
C4_Witness ==
    /\ docPc = "returned"
    /\ document[1].chapters # <<>>
    /\ document[1].articles = <<>>
    /\ document[1].metadata.number = <<"4", "4", "-", "FZ">>

-----------------------------------------------------------------------------
(* Claims about invocations of ArticleParser.parse *)

\* C5: parse is deterministic: any two finished invocations on the same
\* text, on one instance or on two and whatever was parsed in between,
\* returned deep-equal trees.
C5_Deterministic ==
    \A a, b \in 1..Len(History(1)) :
        History(1)[a].text = History(1)[b].text
            => History(1)[a].tree = History(1)[b].tree

\* a text with a chapter, an article and a part has been parsed twice on
\* one instance with another text parsed on that instance in between
C5_Witness ==
    /\ Len(History(1)) = 3
    /\ History(1)[1].text = History(1)[3].text
    /\ History(1)[2].text # History(1)[1].text
    /\ History(1)[1].instance = History(1)[2].instance
    /\ History(1)[1].instance = History(1)[3].instance
    /\ History(1)[2].tree.articles # <<>>
    /\ History(1)[3].tree.chapters # <<>>
    /\ History(1)[3].tree.chapters[1].articles # <<>>

\* the ids of the Article objects in the list arts, of their ArticlePart
\* objects and of the subparts lists of those
ReachArticles(h, arts) ==
    {arts[n] : n \in 1..Len(arts)}
        \cup UNION {{h[arts[n]].parts[m] : m \in 1..Len(h[arts[n]].parts)} :
                    n \in 1..Len(arts)}
        \cup UNION {{h[h[arts[n]].parts[m]].subparts :
                        m \in 1..Len(h[arts[n]].parts)} :
                    n \in 1..Len(arts)}

\* the ids of all the objects of a returned pair of lists
Reach(h, ret) ==
    {ret.chapters[c] : c \in 1..Len(ret.chapters)}
        \cup ReachArticles(h, ret.articles)
        \cup UNION {ReachArticles(h, h[ret.chapters[c]].articles) :
                    c \in 1..Len(ret.chapters)}

\* C6: under any interleaving of two invocations of parse, on one instance
\* or on two, the tree an invocation returned is, and stays, the tree parse
\* gives for its text run alone, and the two returned trees share no
\* Chapter, Article, ArticlePart or subparts list.
C6_IsolatedInvocations ==
    /\ \A t \in Invocations :
           result[t] # None => Tree(heap, result[t][1]) = ParseText(docOf[t])
    /\ (result[1] # None /\ result[2] # None) =>
           Reach(heap, result[1][1]) \cap Reach(heap, result[2][1]) = {}

\* an article with a part that has a subpart
HasSubpart(tree) ==
    \E a \in AllArticles(tree.chapters, tree.articles) :
        \E m \in 1..Len(a.parts) : a.parts[m].subparts # <<>>

\* two invocations on one instance have returned, one a tree with a
\* subpart and the other a tree with an article in a chapter, and their
\* objects were allocated in turns
C6_Witness ==
    /\ result[1] # None /\ result[2] # None
    /\ instanceOf[1] = instanceOf[2]
    /\ HasSubpart(Tree(heap, result[1][1]))
    /\ result[2][1].chapters # <<>>
    /\ heap[result[2][1].chapters[1]].articles # <<>>
    /\ \E a1, b1 \in Reach(heap, result[1][1]) :
       \E a2, b2 \in Reach(heap, result[2][1]) : a1 < a2 /\ b2 < b1

-----------------------------------------------------------------------------
(* Claims about the articles of a span.  The header lines are read off the *)
(* lines of the text without the matcher.                                    *)

\* digits, or digits '.' digits
IsArticleNumber(ns) ==
    /\ ns # <<>>
    /\ \/ \A k \in 1..Len(ns) : IsDigit(ns[k])
       \/ \E d \in 2..Len(ns) - 1 :
              ns[d] = "." /\ \A k \in (1..Len(ns)) \ {d} : IsDigit(ns[k])

\* where the '.' that ends the number of a header line 'Статья <number>.'
\* can stand: after the word, white space and a number
NumberEnds(line) ==
    {c \in 4..Len(line) :
        /\ line[1] = "Statya"
        /\ line[c] = "."
        /\ \E b \in 3..c - 1 :
               /\ \A k \in 2..b - 1 : IsSpace(line[k])
               /\ IsArticleNumber(SubSeq(line, b, c - 1))}

\* a line 'Статья <number>.' with or without a title after the dot
IsArticleHeaderLine(line) == NumberEnds(line) # {}

\* the number of a header line as written, in its longest reading
HeaderNumber(line) ==
    Bind(CHOOSE c \in NumberEnds(line) : \A d \in NumberEnds(line) : d <= c,
         LAMBDA c :
        SubSeq(line, CHOOSE b \in 3..c - 1 :
                         ~IsSpace(line[b]) /\ \A k \in 2..b - 1 : IsSpace(line[k]),
               c - 1))

\* the positions of the article header lines among lines
HeaderLineAt(lines) == {l \in 1..Len(lines) : IsArticleHeaderLine(lines[l])}

\* the articles arts are those of the header lines of lines, one for one and
\* in their order: number as written, full_text the lines up to the next
\* header line
ArticlesOfHeaderLines(arts, lines) ==
    Bind(HeaderLineAt(lines), LAMBDA H :
        /\ Len(arts) = Cardinality(H)
        /\ \A k \in 1..Len(arts) :
               /\ arts[k].number = HeaderNumber(lines[Nth(H, k)])
               /\ arts[k].full_text =
                      Strip(Join(<<NL>>,
                                 SubSeq(lines, Nth(H, k) + 1,
                                        IF k < Cardinality(H)
                                        THEN Nth(H, k + 1) - 1 ELSE Len(lines)))))

\* C20: within a span the articles correspond one-to-one and in text order
\* to the header lines 'Статья <number>.', also to a header line with no
\* title after the dot and to a header directly followed by another: each
\* has its number as written (dotted forms, duplicates and decreasing numbers
\* kept) and as full_text the text from the end of its header line to the
\* next article header or the end of the span, so that no line after a
\* header is taken into a title.  Stated for the flat layout, where the
\* span is the whole text.
C20_OneArticlePerHeaderLine ==
    (pc = "returned" /\ chapters = <<>>) =>
        ArticlesOfHeaderLines(articles, Split(text))

\* 'Статья 2.' directly followed by 'Статья 1. T' has been parsed: one
\* article is returned, with the second header as its title
C20_Witness ==
    /\ pc = "returned"
    /\ text = TextOfLines(<< <<"Statya", SP, "2", ".">>,
                             <<"Statya", SP, "1", ".", SP, "T">> >>)
    /\ Len(articles) = 1
    /\ articles[1].number = <<"2">>
    /\ articles[1].title = <<"Statya", SP, "1", ".", SP, "T">>

-----------------------------------------------------------------------------
(* Claims about the chapters of a text.  The chapter header lines are read *)
(* off the lines of the text without the matcher.                           *)

\* a line 'Глава|Раздел <numeral>.' with or without a title after the dot
IsChapterHeaderLine(line) ==
    /\ Len(line) >= 4
    /\ IsChapterWord(line[1])
    /\ \E b \in 3..Len(line) - 1 : \E c \in b + 1..Len(line) :
           /\ \A k \in 2..b - 1 : IsSpace(line[k])
           /\ line[c] = "."
           /\ \/ \A k \in b..c - 1 : IsRoman(line[k])
              \/ \A k \in b..c - 1 : IsDigit(line[k])

\* the positions of the chapter header lines among lines
ChapterLineAt(lines) == {l \in 1..Len(lines) : IsChapterHeaderLine(lines[l])}

\* the lines between chapter header line i and the next one
ChapterSpanLines(lines, i) ==
    Bind(ChapterLineAt(lines), LAMBDA C :
        SubSeq(lines, Nth(C, i) + 1,
               IF i < Cardinality(C) THEN Nth(C, i + 1) - 1 ELSE Len(lines)))

\* the numbers of the article header lines among lines, in their order
HeaderNumbers(lines) ==
    Bind(HeaderLineAt(lines), LAMBDA H :
        [k \in 1..Cardinality(H) |-> HeaderNumber(lines[Nth(H, k)])])

\* every article of chapter c carries the number and the title of c
Stamped(c) ==
    \A k \in 1..Len(c.articles) :
        /\ c.articles[k].chapter_number = Some(c.number)
        /\ c.articles[k].chapter_title = Some(c.title)

\* C21: in the chapter layout the chapters are those of the chapter header
\* lines, one for one and in text order; the articles of chapter i are those
\* of the article header lines between chapter header line i and the next
\* chapter header line (the end of the text for the last chapter), and each
\* carries the chapter's number and title as chapter_number and
\* chapter_title; the articles of the flat layout carry None for both.
C21_ChapterSpansAndStamps ==
    pc = "returned" =>
        /\ chapters # <<>> =>
               /\ Len(chapters) = Cardinality(ChapterLineAt(Split(text)))
               /\ \A i \in 1..Len(chapters) :
                      /\ [k \in 1..Len(chapters[i].articles) |->
                             chapters[i].articles[k].number]
                            = HeaderNumbers(ChapterSpanLines(Split(text), i))
                      /\ Stamped(chapters[i])
        /\ \A k \in 1..Len(articles) :
               /\ articles[k].chapter_number = None
               /\ articles[k].chapter_title = None

\* 'Глава 1.' directly followed by 'Статья 1. T' has been parsed: the one
\* chapter has the article header as its title and holds no article
C21_Witness ==
    /\ pc = "returned"
    /\ text = TextOfLines(<< <<"Glava", SP, "1", ".">>,
                             <<"Statya", SP, "1", ".", SP, "T">> >>)
    /\ Len(chapters) = 1
    /\ chapters[1].title = <<"Statya", SP, "1", ".", SP, "T">>
    /\ chapters[1].articles = <<>>

\* the numbers of the articles of all the chapters chs, in their order
NumbersInChapters(chs) ==
    Flatten([c \in 1..Len(chs) |->
                [k \in 1..Len(chs[c].articles) |-> chs[c].articles[k].number]])

\* the lines after the first chapter header line
LinesAfterFirstChapter(lines) ==
    SubSeq(lines, Least(ChapterLineAt(lines)) + 1, Len(lines))

\* C27: in the chapter layout the articles returned are exactly those whose
\* headers stand after the first chapter header, in their order; an article
\* header before the first chapter header gives no article, in a chapter or
\* in the flat list.
C27_ArticlesAfterFirstChapter ==
    (pc = "returned" /\ chapters # <<>>) =>
        /\ articles = <<>>
        /\ NumbersInChapters(chapters)
               = HeaderNumbers(LinesAfterFirstChapter(Split(text)))

\* 'Статья 1. T', 'Глава IV. T' and 'Статья 2.' have been parsed: the one
\* chapter holds no article, neither the one before it nor the one after it
C27_Witness ==
    /\ pc = "returned"
    /\ text = TextOfLines(<< <<"Statya", SP, "1", ".", SP, "T">>,
                             <<"Glava", SP, "I", "V", ".", SP, "T">>,
                             <<"Statya", SP, "2", ".">> >>)
    /\ Len(chapters) = 1
    /\ chapters[1].articles = <<>>
    /\ articles = <<>>

-----------------------------------------------------------------------------
(* Claims about strings of Roman symbols of any form *)

\* the value of symbol i of r counted with its sign: minus when Smaller(i)
Signed(r, i, Smaller(_)) ==
    IF Smaller(i) THEN 0 - RomanValues(r[i]) ELSE RomanValues(r[i])

\* symbols are subtracted when a larger one stands anywhere to their right
LargerAnywhereToTheRight(r) ==
    Sum([i \in 1..Len(r) |->
            Signed(r, i, LAMBDA k : \E j \in k + 1..Len(r) :
                                       RomanValues(r[j]) > RomanValues(r[k]))])

\* symbols are subtracted when the symbol next to their right is larger
LargerNextToTheRight(r) ==
    Sum([i \in 1..Len(r) |->
            Signed(r, i, LAMBDA k : k < Len(r)
                                       /\ RomanValues(r[k + 1]) > RomanValues(r[k]))])

IIX == <<"I", "I", "X">>

\* C19 as stated: for every string of Roman symbols _roman_to_int returns
\* the value of the scan that subtracts a symbol when a larger symbol stands
\* anywhere to its right and adds it otherwise, also for 'IIX'.
C19_LargerSeenAnywhere ==
    /\ romanResult # None => romanResult = Some(LargerAnywhereToTheRight(romanArg))
    /\ pc = "returned" =>
           chapters[1].number = LargerAnywhereToTheRight(romanArg)

\* C19 as amended: for every string of Roman symbols _roman_to_int returns
\* the value of the scan that subtracts a symbol when the symbol directly to
\* its right is larger and adds it otherwise; 'IIX' gives 10, and a chapter
\* header with the string as its numeral gets that value as its number.
C19_LargerSeenLast ==
    /\ romanResult # None => romanResult = Some(LargerNextToTheRight(romanArg))
    /\ (romanResult # None /\ romanArg = IIX) => romanResult = Some(10)
    /\ pc = "returned" =>
           /\ Len(chapters) = 1
           /\ chapters[1].number = LargerNextToTheRight(romanArg)

\* 'IIX' has been converted, and parsed as the numeral of a chapter header
C19_Witness ==
    /\ romanArg = IIX
    /\ romanResult = Some(10)
    /\ pc = "returned"
    /\ chapters[1].number = 10

-----------------------------------------------------------------------------
(* Claims about the methods of NPADocument *)

\* the articles of the chapters chs, as positions (chapter, article)
ChapterArticlePositions(chs) ==
    {<<c, i>> \in (1..Len(chs)) \X (1..8) : i <= Len(chs[c].articles)}

\* C13: get_statistics reports 'chapters' as the number of chapters and
\* 'articles' as the article count of the populated variant: the sum over the
\* chapters for a chapter-structured document, the length of the flat list
\* for a flat one; chapters of 3 and 5 articles give 2 and 8, an empty
\* document 0 and 0.
C13_StatisticsCounts ==
    statistics # None =>
        /\ statistics[1].chapters = Len(document[1].chapters)
        /\ document[1].articles = <<>> =>
               statistics[1].articles =
                   Cardinality(ChapterArticlePositions(document[1].chapters))
        /\ document[1].chapters = <<>> =>
               statistics[1].articles = Len(document[1].articles)
        /\ (document[1].chapters = ThreeAndFive /\ document[1].articles = <<>>) =>
               (statistics[1].chapters = 2 /\ statistics[1].articles = 8)
        /\ (document[1].chapters = <<>> /\ document[1].articles = <<>>) =>
               (statistics[1].chapters = 0 /\ statistics[1].articles = 0)

\* the statistics of the document with chapters of 3 and of 5 articles have
\* been taken
C13_Witness ==
    /\ statistics # None
    /\ Len(document[1].chapters) = 2
    /\ Len(document[1].chapters[1].articles) = 3
    /\ Len(document[1].chapters[2].articles) = 5
    /\ document[1].articles = <<>>
    /\ statistics[1].chapters = 2
    /\ statistics[1].articles = 8

\* every article of the document in the order of the search: the flat list,
\* then the chapters in their order
SearchOrder(doc) ==
    doc.articles \o
        [k \in 1..Cardinality(ChapterArticlePositions(doc.chapters)) |->
            Bind(CHOOSE p \in ChapterArticlePositions(doc.chapters) :
                     Cardinality({q \in ChapterArticlePositions(doc.chapters) :
                                      q[1] < p[1] \/ (q[1] = p[1] /\ q[2] < p[2])})
                         = k - 1,
                 LAMBDA p : doc.chapters[p[1]].articles[p[2]])]

\* C14: get_article_by_number(n) returns the first article, in the order flat
\* list then chapters, whose number is exactly the string n ('1', '01' and
\* '1.0' differ); it returns None exactly when no article of the flat list
\* or of a chapter has that number, and the earliest one when several have.
C14_FirstExactMatch ==
    lookup # None =>
        Bind(SearchOrder(document[1]), LAMBDA order :
        Bind({i \in 1..Len(order) : order[i].number = lookup[1].article_number},
             LAMBDA hits :
            /\ lookup[1].result = None <=> hits = {}
            /\ hits # {} =>
                   lookup[1].result =
                       Some(order[CHOOSE i \in hits : \A j \in hits : i <= j])))

\* '1' has been looked up in the chapters where it stands twice, after '01':
\* the result is the earlier of the two
C14_Witness ==
    /\ lookup # None
    /\ document[1].articles = <<>>
    /\ document[1].chapters = RepeatedInChapters
    /\ lookup[1].article_number = <<"1">>
    /\ lookup[1].result # None
    /\ lookup[1].result[1].title = <<"V">>

\* An article header as the text itself shows it, without the matcher: at the
\* start of a line the word, a run of \s, digits with at most one group
\* '.digits', '.', a run of \s and a title of one symbol or more.
HasArticleHeader(s) ==
    \E i \in 1..Len(s) :
        /\ LineStart(s, i) /\ s[i] = "Statya"
        /\ \E b \in i + 2..Len(s) :
            /\ \A k \in i + 1..b - 1 : IsSpace(s[k])
            /\ \E c \in b + 1..Len(s) :
                /\ s[c] = "."
                /\ \/ \A k \in b..c - 1 : IsDigit(s[k])
                   \/ \E d \in b + 1..c - 2 :
                          /\ s[d] = "."
                          /\ \A k \in (b..c - 1) \ {d} : IsDigit(s[k])
                /\ \E t \in c + 1..Len(s) :
                    /\ \A k \in c + 1..t - 1 : IsSpace(s[k])
                    /\ s[t] # NL

\* a text with no chapter header and no article header
Headerless(s) == ~HasChapterHeader(s) /\ ~HasArticleHeader(s)

\* C17: for the empty text and for every text with no chapter header and no
\* article header, parse returns ([], []) and does not raise, and the
\* document built from that result is a valid document whose statistics
\* report 0 chapters and 0 articles and in which every lookup of an article
\* gives None.
C17_DegenerateInput ==
    /\ docPc \in {"built", "constructed"} => document # None
    /\ (docPc \in {"built", "returned"} /\ Headerless(rawText)) =>
           /\ document # None
           /\ document[1].chapters = <<>>
           /\ document[1].articles = <<>>
           /\ statistics # None =>
                  (statistics[1].chapters = 0 /\ statistics[1].articles = 0)
           /\ lookup # None => lookup[1].result = None

\* a document has been built from the result of parse on a text of two
\* lines without a header; its statistics and a lookup have been taken
C17_Witness ==
    /\ docPc = "built"
    /\ Headerless(rawText)
    /\ \E i \in 1..Len(rawText) : rawText[i] = NL
    /\ \E i \in 1..Len(rawText) : IsDigit(rawText[i])
    /\ document[1].chapters = <<>> /\ document[1].articles = <<>>
    /\ statistics # None /\ statistics[1].articles = 0
    /\ lookup # None /\ lookup[1].result = None

-----------------------------------------------------------------------------
(* Claims about to_markdown.  A rendering is read as its lines. *)

\* the line is the decimal numeral of number, '. ' and rest
NumberedLine(line, number, rest) ==
    \E c \in 1..Len(line) :
        /\ \A k \in 1..c : IsDigit(line[k])
        /\ c = 1 \/ line[1] # "0"
        /\ IntOf(SubSeq(line, 1, c)) = number
        /\ SubSeq(line, c + 1, Len(line)) = <<".", SP>> \o rest

\* the lines a part takes: those of its text, one for each subpart and the
\* empty line after it
PartLineCount(part) == Len(Split(part.text)) + Len(part.subparts) + 1

\* the lines an article takes: its heading, an empty line and its parts
ArticleLineCount(a) ==
    2 + Sum([k \in 1..Len(a.parts) |-> PartLineCount(a.parts[k])])

\* the line on which part k of the article a starts
PartOffset(a, k) ==
    3 + Sum([j \in 1..k - 1 |-> PartLineCount(a.parts[j])])

\* part k of a stands in lines at its place: its text after its number,
\* then its subparts as bullets in their order, then an empty line
PartRendered(a, k, lines) ==
    Bind(PartOffset(a, k), LAMBDA o :
    Bind(Len(Split(a.parts[k].text)), LAMBDA n :
        /\ NumberedLine(Join(<<NL>>, SubSeq(lines, o, o + n - 1)),
                        a.parts[k].number, a.parts[k].text)
        /\ \A j \in 1..Len(a.parts[k].subparts) :
               lines[o + n + j - 1] =
                   <<SP, SP, SP, "-", SP>> \o a.parts[k].subparts[j]
        /\ lines[o + n + Len(a.parts[k].subparts)] = <<>>))

\* lines is the rendering of the article a: the level-3 heading, an empty
\* line and every part at its place, and nothing else
ArticleRendered(a, lines) ==
    /\ Len(lines) = ArticleLineCount(a)
    /\ lines[1] = <<"#", "#", "#", SP, "Statya", SP>> \o a.number
                      \o <<".", SP>> \o a.title
    /\ lines[2] = <<>>
    /\ \A k \in 1..Len(a.parts) : PartRendered(a, k, lines)

\* the line on which article i of the chapter starts
ArticleOffset(chapter, i) ==
    3 + Sum([j \in 1..i - 1 |-> ArticleLineCount(chapter.articles[j])])

\* lines is the rendering of the chapter: the level-2 heading, an empty line
\* and the rendering of every article at its place, and nothing else
ChapterRendered(chapter, lines) ==
    /\ Len(lines) = ArticleOffset(chapter, Len(chapter.articles) + 1) - 1
    /\ \E c \in 6..Len(lines[1]) :
           /\ SubSeq(lines[1], 1, 5) = <<"#", "#", SP, "Glava", SP>>
           /\ NumberedLine(SubSeq(lines[1], 6, Len(lines[1])), chapter.number,
                           chapter.title)
    /\ lines[2] = <<>>
    /\ \A i \in 1..Len(chapter.articles) :
           ArticleRendered(chapter.articles[i],
                           SubSeq(lines, ArticleOffset(chapter, i),
                                  ArticleOffset(chapter, i + 1) - 1))

\* '### Статья 1. T', '', '1. Текст один.', '', '2. Текст два.',
\* '   - 1) под.', ''
SubpartExampleMarkdown ==
    TextOfLines(<< <<"#", "#", "#", SP, "Statya", SP, "1", ".", SP, "T">>,
                   <<>>,
                   <<"1", ".", SP, "Tekst", SP, "odin", ".">>,
                   <<>>,
                   <<"2", ".", SP, "Tekst", SP, "dva", ".">>,
                   <<SP, SP, SP, "-", SP, "1", ")", SP, "pod", ".">>,
                   <<>> >>)

\* C18: Chapter.to_markdown gives the heading '## Глава {number}. {title}'
\* and then the rendering of each of its articles in list order;
\* Article.to_markdown gives the heading '### Статья {number}. {title}' and
\* then each part in list order as '{number}. {text}' with each of its
\* subparts as an indented '- ' bullet line beneath it and before the next
\* part; no part or subpart is dropped, duplicated or reordered.
C18_MarkdownPreservesTree ==
    markdown # None =>
        /\ Len(markdown[1].chapters) = Len(chapters)
        /\ Len(markdown[1].articles) = Len(articles)
        /\ \A i \in 1..Len(chapters) :
               ChapterRendered(chapters[i], Split(markdown[1].chapters[i]))
        /\ \A i \in 1..Len(articles) :
               ArticleRendered(articles[i], Split(markdown[1].articles[i]))
        /\ text = SubpartExample =>
               markdown[1].articles = <<SubpartExampleMarkdown>>
        /\ text = <<"Glava", SP, "I", "V", ".", SP, "T">> =>
               markdown[1].chapters =
                   << <<"#", "#", SP, "Glava", SP, "4", ".", SP, "T", NL>> >>

\* the article of SubpartExample has been rendered
C18_Witness ==
    /\ markdown # None
    /\ text = SubpartExample
    /\ markdown[1].chapters = <<>>
    /\ markdown[1].articles = <<SubpartExampleMarkdown>>


-----------------------------------------------------------------------------
(* Claims about the preamble of a document.  The first header is read off  *)
(* the lines of the text without the matcher.                               *)

\* the positions of the lines that are an article header or a chapter header
StructuralLineAt(lines) ==
    {l \in 1..Len(lines) :
        IsArticleHeaderLine(lines[l]) \/ IsChapterHeaderLine(lines[l])}

\* the lines that precede the first header line, as one text
TextBeforeFirstHeader(s) ==
    Strip(TextOfLines(SubSeq(Split(s), 1, Least(StructuralLineAt(Split(s))) - 1)))

\* C25: the preamble of a document assembled by NPAParser.parse is the text
\* that precedes the first chapter or article header the structural parser
\* recognises: empty when that header is the first thing in the text, and
\* with every line that precedes the header in it.  (An NPAParser built with
\* extract_preamble off leaves the preamble empty.)
C25_PreambleBeforeFirstHeader ==
    (docPc = "returned" /\ StructuralLineAt(Split(rawText)) # {}) =>
        \/ document[1].preamble = TextBeforeFirstHeader(rawText)
        \/ document[1].preamble = <<>>

\* NPAParser.parse has returned for six lines 'd' followed by 'Статья 1. T':
\* the preamble is the sixth line alone
C25_Witness ==
    /\ docPc = "returned"
    /\ rawText = TextOfLines([i \in 1..7 |->
                       IF i <= 6 THEN <<"d">>
                       ELSE <<"Statya", SP, "1", ".", SP, "T">>])
    /\ document[1].preamble = <<"d">>


\* the articles of the populated variant of doc: the flat list, or the
\* articles of the chapters in their order
PopulatedArticles(doc) ==
    IF doc.articles # <<>> THEN doc.articles
    ELSE Flatten([c \in 1..Len(doc.chapters) |-> doc.chapters[c].articles])

\* the number of characters the estimate of a counts: those of full_text, or
\* of the texts of the parts when full_text is empty
CountedLength(a) ==
    IF a.full_text # <<>> THEN StrLen(a.full_text)
    ELSE Sum([k \in 1..Len(a.parts) |-> StrLen(a.parts[k].text)])

\* floor(n / 4): the q with 4q <= n < 4q + 4
FloorOfQuarter(n) == CHOOSE q \in 0..n : 4 * q <= n /\ n < 4 * q + 4

\* the characters counted in all the articles of doc together
TotalLength(doc) ==
    Sum([k \in 1..Len(PopulatedArticles(doc)) |->
            CountedLength(PopulatedArticles(doc)[k])])

\* C26: the estimate of an article is floor(L / 4), L being len(full_text)
\* when full_text is not empty and else the sum of the lengths of its parts'
\* texts, subparts not counted; 'estimated_tokens' of get_statistics is the
\* sum of these floors over the articles of the populated variant, which can
\* be smaller than floor(total characters / 4).
C26_SumOfFloors ==
    (statistics # None
        /\ ~(document[1].articles # <<>> /\ document[1].chapters # <<>>)) =>
        /\ statistics[1].estimated_tokens =
               Sum([k \in 1..Len(PopulatedArticles(document[1])) |->
                       FloorOfQuarter(CountedLength(PopulatedArticles(document[1])[k]))])
        /\ statistics[1].estimated_tokens
               <= FloorOfQuarter(TotalLength(document[1]))
        /\ document[1].articles = <<PartsOnlyArticle>> =>
               statistics[1].estimated_tokens = 2
        /\ document[1].articles = SevenAndSeven =>
               statistics[1].estimated_tokens = 2

\* the statistics of two articles of 7 characters each have been taken: 2
\* tokens, where 14 characters together would give 3
C26_Witness ==
    /\ statistics # None
    /\ document[1].articles = SevenAndSeven
    /\ document[1].chapters = <<>>
    /\ statistics[1].estimated_tokens = 2
    /\ FloorOfQuarter(TotalLength(document[1])) = 3


-----------------------------------------------------------------------------
(* src/scraper/rate_limiter.py: acquire and acquire_sync, step by step.   *)
(* acquire runs under the asyncio.Lock _lock and acquire_sync under the   *)
(* threading.Lock _sync_lock; a caller of acquire_sync is a thread, which *)
(* the interpreter may switch after any bytecode, so every read and every *)
(* write of an attribute of the limiter is a step of its own. A coroutine *)
(* is switched at an await only, and all that acquire does to the limiter *)
(* is done under _lock, so stepping it as finely shows no more of         *)
(* coroutines among themselves than the event loop does.                  *)

\* the lock the method of a caller takes
LockOf(kind) == IF kind = "acquire" THEN "_lock" ELSE "_sync_lock"

\* (1 - self.tokens) / self.rate, rounded up to whole seconds
SleepTime(l) ==
    IF l.tokens <= OneToken
    THEN (OneToken - l.tokens + l.rate - 1) \div l.rate
    ELSE -1

\* a call of acquire() or of acquire_sync()
AcquireCall(c) ==
    /\ callers[c].pc = "idle"
    /\ callers' = [callers EXCEPT ![c].pc = "lock"]
    /\ UNCHANGED <<limiter, lockOwner, wallClock>>

\* async with self._lock: / with self._sync_lock: the lock is taken when free
AcquireEnter(c) ==
    /\ callers[c].pc = "lock"
    /\ lockOwner[LockOf(callers[c].kind)] = 0
    /\ lockOwner' = [lockOwner EXCEPT ![LockOf(callers[c].kind)] = c]
    /\ callers' = [callers EXCEPT ![c].pc = "now"]
    /\ UNCHANGED <<limiter, wallClock>>

\* _refill_tokens: now = time.time()
RefillNow(c) ==
    /\ callers[c].pc = "now"
    /\ callers' = [callers EXCEPT ![c].pc = "elapsed", ![c].now = wallClock]
    /\ UNCHANGED <<limiter, lockOwner, wallClock>>

\* _refill_tokens: elapsed = now - self.last_update and
\* new_tokens = elapsed * self.rate
RefillElapsed(c) ==
    /\ callers[c].pc = "elapsed"
    /\ callers' = [callers EXCEPT
           ![c].pc = "load",
           ![c].new_tokens = (callers[c].now - limiter.last_update) * limiter.rate]
    /\ UNCHANGED <<limiter, lockOwner, wallClock>>

\* _refill_tokens: the read of self.tokens in self.tokens + new_tokens
RefillLoad(c) ==
    /\ callers[c].pc = "load"
    /\ callers' = [callers EXCEPT ![c].pc = "store", ![c].loaded = limiter.tokens]
    /\ UNCHANGED <<limiter, lockOwner, wallClock>>

\* min(self.burst_size, tokens + new_tokens) for the tokens read
Refilled(l, loaded, new_tokens) ==
    IF loaded + new_tokens < l.burst_size * OneToken
    THEN loaded + new_tokens
    ELSE l.burst_size * OneToken

\* _refill_tokens: the write of self.tokens
RefillStore(c) ==
    /\ callers[c].pc = "store"
    /\ limiter' = [limiter EXCEPT
           !.tokens = Refilled(limiter, callers[c].loaded, callers[c].new_tokens)]
    /\ callers' = [callers EXCEPT
           ![c].pc = "stamp", ![c].loaded = 0, ![c].new_tokens = 0]
    /\ UNCHANGED <<lockOwner, wallClock>>

\* _refill_tokens: self.last_update = now, and back to while self.tokens < 1
RefillStamp(c) ==
    /\ callers[c].pc = "stamp"
    /\ limiter' = [limiter EXCEPT !.last_update = callers[c].now]
    /\ callers' = [callers EXCEPT ![c].pc = "while", ![c].now = 0]
    /\ UNCHANGED <<lockOwner, wallClock>>

\* while self.tokens < 1:
AcquireWhile(c) ==
    /\ callers[c].pc = "while"
    /\ callers' = [callers EXCEPT
           ![c].pc = IF limiter.tokens < OneToken THEN "sleep_time" ELSE "take"]
    /\ UNCHANGED <<limiter, lockOwner, wallClock>>

\* sleep_time = (1 - self.tokens) / self.rate and the call of sleep:
\* asyncio.sleep returns at once for a delay below zero, time.sleep raises
\* ValueError for one, which leaves the with block and frees _sync_lock
AcquireSleep(c) ==
    /\ callers[c].pc = "sleep_time"
    /\ IF SleepTime(limiter) < 0 /\ callers[c].kind = "acquire_sync"
       THEN /\ callers' = [callers EXCEPT ![c].pc = "raised"]
            /\ lockOwner' = [lockOwner EXCEPT ![LockOf(callers[c].kind)] = 0]
       ELSE /\ callers' = [callers EXCEPT
                   ![c].pc = "sleeping",
                   ![c].wake = IF SleepTime(limiter) < 0 THEN wallClock
                               ELSE wallClock + SleepTime(limiter)]
            /\ UNCHANGED lockOwner
    /\ UNCHANGED <<limiter, wallClock>>

\* the sleep in the loop is over: self._refill_tokens() of the loop body
AcquireWake(c) ==
    /\ callers[c].pc = "sleeping"
    /\ wallClock >= callers[c].wake
    /\ callers' = [callers EXCEPT ![c].pc = "now", ![c].wake = 0]
    /\ UNCHANGED <<limiter, lockOwner, wallClock>>

\* self.tokens -= 1: the read of self.tokens
TakeLoad(c) ==
    /\ callers[c].pc = "take"
    /\ callers' = [callers EXCEPT ![c].pc = "take_store", ![c].loaded = limiter.tokens]
    /\ UNCHANGED <<limiter, lockOwner, wallClock>>

\* self.tokens -= 1: the write of self.tokens
TakeStore(c) ==
    /\ callers[c].pc = "take_store"
    /\ limiter' = [limiter EXCEPT !.tokens = callers[c].loaded - OneToken]
    /\ callers' = [callers EXCEPT
           ![c].pc = "pause",
           ![c].loaded = 0,
           ![c].taken = Some(<<limiter.tokens, callers[c].loaded - OneToken>>)]
    /\ UNCHANGED <<lockOwner, wallClock>>

\* if self.rate_limit_seconds > 0: sleep(self.rate_limit_seconds); without
\* it the with block ends and the lock is freed
AcquirePause(c) ==
    /\ callers[c].pc = "pause"
    /\ IF limiter.rate_limit_seconds > 0
       THEN /\ callers' = [callers EXCEPT
                   ![c].pc = "pausing",
                   ![c].wake = wallClock + limiter.rate_limit_seconds]
            /\ UNCHANGED lockOwner
       ELSE /\ callers' = [callers EXCEPT ![c].pc = "granted"]
            /\ lockOwner' = [lockOwner EXCEPT ![LockOf(callers[c].kind)] = 0]
    /\ UNCHANGED <<limiter, wallClock>>

\* the sleep of rate_limit_seconds is over: the with block ends, the lock
\* is freed and the method returns
AcquireExit(c) ==
    /\ callers[c].pc = "pausing"
    /\ wallClock >= callers[c].wake
    /\ callers' = [callers EXCEPT ![c].pc = "granted", ![c].wake = 0]
    /\ lockOwner' = [lockOwner EXCEPT ![LockOf(callers[c].kind)] = 0]
    /\ UNCHANGED <<limiter, wallClock>>

\* a second passes, up to the second last
Tick(last) ==
    /\ wallClock < last
    /\ wallClock' = wallClock + 1
    /\ UNCHANGED <<limiter, lockOwner, callers>>

-----------------------------------------------------------------------------
(* Specification of the limiter: one TokenBucketRateLimiter of a          *)
(* burst_size up to MaxBurst, refilled with half a token a second, with   *)
(* or without the pause of one second, and MaxCallers callers, each of    *)
(* acquire() or of acquire_sync(), over MaxTime seconds                   *)

InitLimiter ==
    /\ \E b \in 1..MaxBurst, p \in {0, 1} :
           limiter = TokenBucketRateLimiter(1, b, p, 0)
    /\ lockOwner = [_lock |-> 0, _sync_lock |-> 0]
    /\ wallClock = 0
    /\ \E n \in 0..MaxCallers :
           callers = [c \in Callers |->
               IdleCaller(IF c <= n THEN "acquire" ELSE "acquire_sync")]
    /\ retry = IdleRetry
    /\ ParserIdle
    /\ RomanIdle
    /\ MetaIdle
    /\ DocIdle
    /\ ConcIdle

Others == <<parserVars, romanVars, metaVars, docVars, concVars>>

NextLimiter ==
    \/ \E c \in Callers : AcquireCall(c) /\ UNCHANGED <<Others, retry>>
    \/ \E c \in Callers : AcquireEnter(c) /\ UNCHANGED <<Others, retry>>
    \/ \E c \in Callers : RefillNow(c) /\ UNCHANGED <<Others, retry>>
    \/ \E c \in Callers : RefillElapsed(c) /\ UNCHANGED <<Others, retry>>
    \/ \E c \in Callers : RefillLoad(c) /\ UNCHANGED <<Others, retry>>
    \/ \E c \in Callers : RefillStore(c) /\ UNCHANGED <<Others, retry>>
    \/ \E c \in Callers : RefillStamp(c) /\ UNCHANGED <<Others, retry>>
    \/ \E c \in Callers : AcquireWhile(c) /\ UNCHANGED <<Others, retry>>
    \/ \E c \in Callers : AcquireSleep(c) /\ UNCHANGED <<Others, retry>>
    \/ \E c \in Callers : AcquireWake(c) /\ UNCHANGED <<Others, retry>>
    \/ \E c \in Callers : TakeLoad(c) /\ UNCHANGED <<Others, retry>>
    \/ \E c \in Callers : TakeStore(c) /\ UNCHANGED <<Others, retry>>
    \/ \E c \in Callers : AcquirePause(c) /\ UNCHANGED <<Others, retry>>
    \/ \E c \in Callers : AcquireExit(c) /\ UNCHANGED <<Others, retry>>
    \/ Tick(MaxTime) /\ UNCHANGED <<Others, retry>>

SpecLimiter == InitLimiter /\ [][NextLimiter]_vars


-----------------------------------------------------------------------------
(* Claims about TokenBucketRateLimiter                                     *)

\* the tokens of the bucket are within 0 and burst_size
TokensInBucket == 0 <= limiter.tokens /\ limiter.tokens <= limiter.burst_size * OneToken

\* the self.tokens -= 1 of the caller c, when it has done it, found at least
\* one token in the bucket and left exactly one token less
TookOneToken(c) ==
    callers[c].taken /= None
        => /\ callers[c].taken[1][1] >= OneToken
           /\ callers[c].taken[1][2] = callers[c].taken[1][1] - OneToken

\* C29: with callers of acquire() and of acquire_sync() interleaved in any
\* way on one limiter, every grant takes exactly one token from a bucket
\* that holds at least one, which a caller finding less than one has waited
\* for, and the tokens stay within 0 and burst_size in every state
C29_TokenBucketDiscipline ==
    /\ TokensInBucket
    /\ \A c \in Callers : TookOneToken(c)

\* a caller of acquire() and a caller of acquire_sync() have both been
\* granted their request
C29_Witness ==
    \E c \in Callers, d \in Callers :
        /\ callers[c].kind = "acquire" /\ callers[c].pc = "granted"
        /\ callers[d].kind = "acquire_sync" /\ callers[d].pc = "granted"


-----------------------------------------------------------------------------
(* src/scraper/consultant_scraper_v2.py: _request_with_retry, a coroutine *)
(* that calls acquire() of the limiter as the caller RetryCaller. What    *)
(* self.session.request and raise_for_status give is the choice of the    *)
(* server and of the network: a response, whose status raise_for_status   *)
(* passes when it is 2xx and turns into HTTPStatusError otherwise, or an  *)
(* exception of httpx. status is 0 where there is no response.            *)

RetryCaller == 1

Statuses == {200, 404, 429, 500, 599}

Results ==
    [type : {"Response"}, status : Statuses]
        \cup [type : {"ConnectError", "TimeoutException", "ReadError"}, status : {0}]

\* response.raise_for_status() passes
IsSuccess(r) == r.type = "Response" /\ r.status >= 200 /\ r.status < 300

IsRetriedOnAnyError(r) == ~IsSuccess(r)

\* the except clause and the branch in it that sleep and go on with the loop
IsRetried(r) ==
    IF r.type = "Response"
    THEN ~IsSuccess(r) /\ (r.status = 429 \/ (500 <= r.status /\ r.status < 600))
    ELSE r.type \in {"ConnectError", "TimeoutException"}

\* wait_time of the failed attempt of index attempt (from 0)
WaitTime(r, attempt) ==
    IF r.type = "Response"
    THEN IF r.status = 429 THEN 2 ^ (attempt + 2) ELSE 2 ^ (attempt + 1)
    ELSE 2 ^ attempt

\* the seconds _request_with_retry can take at most: for each attempt the
\* waits of acquire, the second a response may take and the longest wait_time
RetryHorizon == 5 * (MaxRetries + 1) + 2 ^ (MaxRetries + 3)

\* for attempt in range(self.max_retries): the next attempt begins with
\* await self.rate_limiter.acquire(); after the last one, raise last_error,
\* which is a TypeError when last_error is still None
RetryLoop ==
    /\ retry.pc = "loop"
    /\ IF retry.attempt < retry.max_retries
       THEN /\ AcquireCall(RetryCaller)
            /\ retry' = [retry EXCEPT !.pc = "acquiring"]
       ELSE /\ retry' = [retry EXCEPT
                   !.pc = "raised",
                   !.outcome = IF retry.last_error = None
                               THEN Some(<<"raise", 0, [type |-> "TypeError", status |-> 0]>>)
                               ELSE Some(<<"raise", retry.last_error[1][1], retry.last_error[1][2]>>)]
            /\ UNCHANGED <<limiter, lockOwner, wallClock, callers>>

\* acquire() has returned: response = await self.session.request(...) is sent
RetryRequest ==
    /\ retry.pc = "acquiring"
    /\ callers[RetryCaller].pc = "granted"
    /\ callers' = [callers EXCEPT ![RetryCaller] = IdleCaller(@.kind)]
    /\ retry' = [retry EXCEPT !.pc = "request", !.acquires = @ + 1]
    /\ UNCHANGED <<limiter, lockOwner, wallClock>>

\* the request is over, d seconds later, with the result r:
\* raise_for_status, return response, and the except clauses
RetryResult(r, d) ==
    /\ retry.pc = "request"
    /\ wallClock + d <= RetryHorizon
    /\ wallClock' = wallClock + d
    /\ retry' =
         Bind(retry.attempt + 1, LAMBDA n :
           IF IsSuccess(r)
           THEN [retry EXCEPT !.pc = "returned",
                              !.attempts = Append(@, r),
                              !.outcome = Some(<<"return", n, r>>)]
           ELSE IF IsRetried(r)
           THEN [retry EXCEPT !.pc = "backoff",
                              !.attempts = Append(@, r),
                              !.last_error = Some(<<n, r>>),
                              !.since = wallClock + d,
                              !.wake = wallClock + d + WaitTime(r, retry.attempt)]
           ELSE [retry EXCEPT !.pc = "raised",
                              !.attempts = Append(@, r),
                              !.last_error = IF r.type = "Response" THEN Some(<<n, r>>) ELSE @,
                              !.outcome = Some(<<"raise", n, r>>)])
    /\ UNCHANGED <<limiter, lockOwner, callers>>

\* await asyncio.sleep(wait_time) is over: the next round of the loop
RetryBackoffOver ==
    /\ retry.pc = "backoff"
    /\ wallClock >= retry.wake
    /\ retry' = [retry EXCEPT !.pc = "loop", !.attempt = @ + 1,
                              !.slept = Append(@, wallClock - retry.since),
                              !.since = 0, !.wake = 0]
    /\ UNCHANGED <<limiter, lockOwner, wallClock, callers>>

\* the coroutine sleeps, in acquire() or in its back-off, and is not due
RetrySleeps ==
    \/ retry.pc = "backoff" /\ wallClock < retry.wake
    \/ /\ callers[RetryCaller].pc \in {"sleeping", "pausing"}
       /\ wallClock < callers[RetryCaller].wake

\* a second passes while the coroutine sleeps
RetryTick == RetrySleeps /\ Tick(RetryHorizon)


-----------------------------------------------------------------------------
(* Specification of one call of _request_with_retry on a scraper of       *)
(* max_retries up to MaxRetries, whose limiter is the one get_rate_limiter *)
(* gives it, with the tokens earlier requests have left in it. No other   *)
(* caller uses the limiter. A second passes only while the coroutine      *)
(* sleeps or waits for its response.                                      *)

InitRetry ==
    /\ \E t \in 0..(3 * OneToken) : limiter = [GetRateLimiter(0) EXCEPT !.tokens = t]
    /\ lockOwner = [_lock |-> 0, _sync_lock |-> 0]
    /\ wallClock = 0
    /\ callers = [c \in Callers |-> IdleCaller("acquire")]
    /\ \E n \in 0..MaxRetries : retry = [IdleRetry EXCEPT !.pc = "loop", !.max_retries = n]
    /\ ParserIdle
    /\ RomanIdle
    /\ MetaIdle
    /\ DocIdle
    /\ ConcIdle

NextRetry ==
    \/ RetryLoop /\ UNCHANGED Others
    \/ AcquireEnter(RetryCaller) /\ UNCHANGED <<Others, retry>>
    \/ RefillNow(RetryCaller) /\ UNCHANGED <<Others, retry>>
    \/ RefillElapsed(RetryCaller) /\ UNCHANGED <<Others, retry>>
    \/ RefillLoad(RetryCaller) /\ UNCHANGED <<Others, retry>>
    \/ RefillStore(RetryCaller) /\ UNCHANGED <<Others, retry>>
    \/ RefillStamp(RetryCaller) /\ UNCHANGED <<Others, retry>>
    \/ AcquireWhile(RetryCaller) /\ UNCHANGED <<Others, retry>>
    \/ AcquireSleep(RetryCaller) /\ UNCHANGED <<Others, retry>>
    \/ AcquireWake(RetryCaller) /\ UNCHANGED <<Others, retry>>
    \/ TakeLoad(RetryCaller) /\ UNCHANGED <<Others, retry>>
    \/ TakeStore(RetryCaller) /\ UNCHANGED <<Others, retry>>
    \/ AcquirePause(RetryCaller) /\ UNCHANGED <<Others, retry>>
    \/ AcquireExit(RetryCaller) /\ UNCHANGED <<Others, retry>>
    \/ RetryRequest /\ UNCHANGED Others
    \/ \E r \in Results, d \in {0, 1} : RetryResult(r, d) /\ UNCHANGED Others
    \/ RetryBackoffOver /\ UNCHANGED Others
    \/ RetryTick /\ UNCHANGED <<Others, retry>>

\* the event loop runs a coroutine that can go on, the server or the
\* network ends every request (the session has a timeout of 30 seconds),
\* and time passes
SpecRetry == InitRetry /\ [][NextRetry]_vars /\ WF_vars(NextRetry)


-----------------------------------------------------------------------------
(* Claims about _request_with_retry                                        *)

\* the call has returned or raised
RetryDone == retry.pc \in {"returned", "raised"}

\* a response with a status of success
Successful(r) == r.type = "Response" /\ r.status \in 200..299

\* a response 429 or 5xx, a connection error or a timeout
Transient(r) ==
    \/ r.type = "Response" /\ (r.status = 429 \/ r.status \in 500..599)
    \/ r.type \in {"ConnectError", "TimeoutException"}

\* a response with another status of error
Refused(r) == r.type = "Response" /\ ~Successful(r) /\ ~Transient(r)

\* what holds of the attempt i of the k made so far
AttemptDiscipline(i, k) ==
    /\ Successful(retry.attempts[i])
           => /\ i = k
              /\ retry.outcome = Some(<<"return", i, retry.attempts[i]>>)
    /\ Refused(retry.attempts[i])
           => /\ i = k
              /\ retry.outcome = Some(<<"raise", i, retry.attempts[i]>>)
    /\ Transient(retry.attempts[i])
           => /\ i < k => Len(retry.slept) >= i /\ retry.slept[i] >= 1
              /\ i = k /\ i < retry.max_retries
                     => retry.outcome = None
              /\ i = k /\ i = retry.max_retries /\ RetryDone
                     => retry.outcome = Some(<<"raise", i, retry.attempts[i]>>)

\* at most max_retries attempts, one acquire() before each, and every
\* attempt dealt with as its result asks
RetryDiscipline ==
    /\ Len(retry.attempts) <= retry.max_retries
    /\ retry.acquires = Len(retry.attempts) + (IF retry.pc = "request" THEN 1 ELSE 0)
    /\ RetryDone <=> retry.outcome /= None
    /\ \A i \in 1..Len(retry.attempts) : AttemptDiscipline(i, Len(retry.attempts))

\* C30: _request_with_retry ends, after at most max_retries attempts with
\* one acquire() before each: it returns the response of the first attempt
\* that succeeds and attempts nothing after it, raises at once a status
\* error other than 429 and 5xx, retries after a back-off a 429, a 5xx, a
\* connection error and a timeout, and raises the error of the last attempt
\* once max_retries attempts have failed
C30_RetryTerminates ==
    /\ []RetryDiscipline
    /\ [][RetryDone => UNCHANGED retry]_vars
    /\ <>RetryDone

\* the third of three attempts has failed after a 429 and a timeout, and
\* the call has raised
C30_Witness ==
    /\ retry.pc = "raised"
    /\ retry.max_retries = 3
    /\ Len(retry.attempts) = 3
    /\ retry.attempts[1].status = 429
    /\ retry.attempts[2].type = "TimeoutException"
    /\ retry.attempts[3].status = 500
    /\ retry.slept = <<4, 2, 8>>
    /\ retry.outcome = Some(<<"raise", 3, retry.attempts[3]>>)

=============================================================================
